---- MODULE Spec2Model ----
(***************************************************************************)
(* Wallet service: the transfer engine of src/services/walletService.js,   *)
(* the transaction wrapper of src/config/db.js, the error handler and the  *)
(* routes, run against a store that behaves as PostgreSQL does under READ  *)
(* COMMITTED with the schema of sql/001_schema.sql.                        *)
(*                                                                         *)
(* The committed database is balance, version, transactions, ledger and    *)
(* idempotency_store.  Every request owns one connection whose open        *)
(* transaction holds row locks (held) and uncommitted writes (tx); COMMIT  *)
(* publishes the writes in one step and ROLLBACK discards them.            *)
(***************************************************************************)
EXTENDS Integers, Sequences, FiniteSets, TLC

\* ------------------------------------------------------------------ bounds
NReq == 2          \* requests submitted in one run
MaxAmount == 2     \* largest amount a request asks for

Reqs == 1..NReq
Amounts == 1..MaxAmount
NoKey == 0                    \* no Idempotency-Key header
Keys == 1..NReq               \* the keys clients send
None == 0                     \* no request / no wallet / no transaction

\* --------------------------------------------------------------- seed data
TREASURY == "treasury"
REVENUE == "revenue"
SYSTEM_ACCOUNTS == {TREASURY, REVENUE}
Users == {"alice", "bob"}
AssetCodes == {"GOLD", "DIAMONDS"}
OpTypes == {"TOPUP", "BONUS", "PURCHASE"}

\* wallets(id, user_id, asset, allow_negative).  Ids are UUIDs; only their
\* order matters, and the schema draws them at random (gen_random_uuid()),
\* so a user's wallet may sort below or above the system wallets.
WalletTable ==
  <<[user_id |-> "alice",  asset |-> "GOLD",     allow_negative |-> FALSE],
    [user_id |-> TREASURY, asset |-> "GOLD",     allow_negative |-> TRUE],
    [user_id |-> REVENUE,  asset |-> "GOLD",     allow_negative |-> TRUE],
    [user_id |-> "bob",    asset |-> "GOLD",     allow_negative |-> FALSE],
    [user_id |-> TREASURY, asset |-> "DIAMONDS", allow_negative |-> TRUE],
    [user_id |-> REVENUE,  asset |-> "DIAMONDS", allow_negative |-> TRUE],
    [user_id |-> "alice",  asset |-> "DIAMONDS", allow_negative |-> FALSE]>>

WalletIds == DOMAIN WalletTable

InitialBalance == <<2, -3, 0, 1, -1, 0, 1>>

AllowNegativeAll(w) == TRUE

AllowNegativeNone(w) == FALSE

allow_negative(w) == WalletTable[w].allow_negative

UserWallets == {w \in WalletIds : WalletTable[w].user_id \notin SYSTEM_ACCOUNTS}

WalletsOf(a) == {w \in WalletIds : WalletTable[w].asset = a}

\* A lockable row: a wallets row or an asset_types row.
WalletRow(w) == <<"wallets", w>>
AssetRow(a) == <<"asset_types", a>>
Rows == {WalletRow(w) : w \in WalletIds} \cup {AssetRow(a) : a \in AssetCodes}

\* ------------------------------------------------------------------- state
VARIABLES
  balance,        \* wallets.balance, committed
  version,        \* wallets.version, committed
  transactions,   \* committed rows of transactions, in commit order
  ledger,         \* committed rows of ledger_entries, in commit order
  idempotency_store, \* committed rows of idempotency_store
  pc,             \* where each request is
  req,            \* each request's arguments
  held,           \* the row locks each request's transaction holds
  walletMap,      \* lockWalletsInOrder's rows read so far: wallet -> balance text
  found,          \* findWallet's results: [user, sys]
  tx,             \* each open transaction's uncommitted writes
  result,         \* the value fn returns to withTransaction
  err,            \* the last error raised for the request, "" if none
  resp,           \* the HTTP response, status 0 while none
  pool            \* the connection pool: its size, the clients checked out

vars == <<balance, version, transactions, ledger, idempotency_store, pc, req,
          held, walletMap, found, tx, result, err, resp, pool>>

NoReq == [op |-> "", userId |-> "", assetCode |-> "", amount |-> 0, key |-> NoKey]

NoResult == [transactionId |-> None, transactionType |-> "", source |-> None,
             dest |-> None, sourceBefore |-> 0, sourceAfter |-> 0,
             destBefore |-> 0, destAfter |-> 0, amount |-> 0,
             idempotent |-> FALSE]

NoError == [walletId |-> None, requested |-> 0, available |-> <<>>]

NoPaging == [limit |-> 0, offset |-> 0, count |-> 0]

NoResp == [status |-> 0, code |-> "", data |-> NoResult, note |-> FALSE,
           error |-> NoError, pagination |-> NoPaging, retryable |-> FALSE,
           balances |-> {}]

\* An open transaction: its uncommitted writes, and now, the keys whose
\* records had expired when it began (NOW() is the transaction's start time).
EmptyTx == [bal |-> <<>>, txn |-> <<>>, ledger |-> <<>>, idem |-> <<>>, now |-> {}]

NoWallets == [user |-> None, sys |-> None]

Store == <<balance, version, transactions, ledger, idempotency_store>>

\* new Pool({ max: 20, ... })
POOL_MAX == 20

\* The pool: max connections; inUse[r], the clients request r has checked out
\* with pool.connect(); released[r], the client.release() calls made for r.
\* steps tells how withTransaction's catch and finally are taken: statement by
\* statement, or as one step with the statement that failed.
NewPool(max, steps) ==
  [max |-> max, steps |-> steps,
   inUse |-> [r \in Reqs |-> 0], released |-> [r \in Reqs |-> 0]]

RECURSIVE Total(_, _)
Total(f, S) ==
  IF S = {} THEN 0
  ELSE LET x == CHOOSE y \in S : TRUE IN f[x] + Total(f, S \ {x})

\* A connection is idle or can still be opened.
PoolFree == Total(pool.inUse, Reqs) < pool.max

\* const client = await pool.connect();
connect(r) == pool' = [pool EXCEPT !.inUse[r] = @ + 1]

releaseKeepsClient(r) == pool' = [pool EXCEPT !.released[r] = @ + 1]

\* client.release();
release(r) == pool' = [pool EXCEPT !.inUse[r] = @ - 1, !.released[r] = @ + 1]

\* ------------------------------------------------------- store primitives
\* Text is a sequence of characters.  The driver hands a BIGINT column to the
\* program as decimal text (no type parser is installed).
Digits == <<"0", "1", "2", "3", "4", "5", "6", "7", "8", "9">>
IsDigit(c) == \E i \in DOMAIN Digits : Digits[i] = c
DigitValue(c) == (CHOOSE i \in DOMAIN Digits : Digits[i] = c) - 1

RECURSIVE NatText(_)
NatText(n) ==
  IF n < 10 THEN <<Digits[n + 1]>>
  ELSE NatText(n \div 10) \o <<Digits[(n % 10) + 1]>>

pgText(n) == IF n < 0 THEN <<"-">> \o NatText(0 - n) ELSE NatText(n)

\* A number or NaN.
NaN == [nan |-> TRUE, val |-> 0]
Num(n) == [nan |-> FALSE, val |-> n]

RECURSIVE ParseDigits(_, _)
ParseDigits(s, acc) ==
  IF s = <<>> \/ ~IsDigit(Head(s)) THEN acc
  ELSE ParseDigits(Tail(s), acc * 10 + DigitValue(Head(s)))

RECURSIVE TrimStart(_)
TrimStart(s) == IF s # <<>> /\ Head(s) = " " THEN TrimStart(Tail(s)) ELSE s

\* parseInt(text): leading blanks, an optional sign, then the longest run of
\* digits; NaN when there is no digit there.
parseInt(text) ==
  LET t == TrimStart(text)
      signed == t # <<>> /\ Head(t) \in {"-", "+"}
      body == IF signed THEN Tail(t) ELSE t
      magnitude == ParseDigits(body, 0)
  IN IF body = <<>> \/ ~IsDigit(Head(body)) THEN NaN
     ELSE Num(IF signed /\ Head(t) = "-" THEN 0 - magnitude ELSE magnitude)

\* Array.prototype.sort() on wallet ids: ascending, duplicates kept.
RECURSIVE Insert(_, _)
Insert(x, s) ==
  IF s = <<>> THEN <<x>>
  ELSE IF x <= Head(s) THEN <<x>> \o s ELSE <<Head(s)>> \o Insert(x, Tail(s))

RECURSIVE Sort(_)
Sort(s) == IF s = <<>> THEN <<>> ELSE Insert(Head(s), Sort(Tail(s)))

\* The rows of "WHERE w.id = ANY($1) ORDER BY w.id ASC": each existing wallet
\* once, ascending.
RECURSIVE Distinct(_)
Distinct(s) ==
  IF Len(s) <= 1 THEN s
  ELSE IF Head(s) = Head(Tail(s)) THEN Distinct(Tail(s))
  ELSE <<Head(s)>> \o Distinct(Tail(s))

\* A query that returns a row for every requested id, repeated ids included.
SelectedRowsPerId(sortedIds) == SelectSeq(sortedIds, LAMBDA w : w \in WalletIds)

SelectedRows(sortedIds) == Distinct(SelectSeq(sortedIds, LAMBDA w : w \in WalletIds))

\* FOR UPDATE without OF locks the rows of every table of the FROM clause:
\* for each selected row, in order, the wallets row and then the asset_types
\* row joined to it.
RECURSIVE LockSequenceJoin(_)
LockSequenceJoin(rows) ==
  IF rows = <<>> THEN <<>>
  ELSE <<WalletRow(Head(rows)), AssetRow(WalletTable[Head(rows)].asset)>>
       \o LockSequenceJoin(Tail(rows))

LockSequence(rows) == LockSequenceJoin(rows)

\* findWallet's query: the wallets of (user, asset code); at most one by
\* UNIQUE(user_id, asset_type_id).
findWallet(userId, assetCode) ==
  {w \in WalletIds : WalletTable[w].user_id = userId /\ WalletTable[w].asset = assetCode}

\* chk_wallet_balance
chk_wallet_balance(w, bal) == allow_negative(w) \/ bal >= 0

\* transactions.idempotency_key UNIQUE: NULLs never collide.
CommittedKeys == {transactions[i].idempotency_key : i \in DOMAIN transactions} \ {NoKey}

UniqueViolationNever(key) == FALSE

\* A unique index in which NULL keys collide like any other value.
UniqueViolationOnNull(key) ==
  key \in {transactions[i].idempotency_key : i \in DOMAIN transactions}

UniqueViolation(key) == key # NoKey /\ key \in CommittedKeys

LookupMisses(key, now) == {}

\* checkIdempotencyKey's query (no key: no query, null):
\* WHERE key = $1 AND expires_at > NOW()
checkIdempotencyKey(key, now) ==
  IF key = NoKey THEN {}
  ELSE {rec \in idempotency_store : rec.key = key /\ rec.key \notin now}

RecoveryFindsNothing(key) == {}

\* A recovery query with the expiry condition of the lookup.
RecoveryHonoursExpiry(key) ==
  {rec \in idempotency_store : rec.key = key /\ ~rec.expired}

\* the recovery query of errorHandler
recoveryLookup(key) == {rec \in idempotency_store : rec.key = key}

\* ------------------------------------------------- commit, rollback, errors
UpdatesOf(r, w) == SelectSeq(tx[r].bal, LAMBDA u : u.wallet = w)

\* A COMMIT that also bumps the version of every wallet.
CommitTouchesEveryVersion(r) ==
  /\ balance' = [w \in WalletIds |->
        IF UpdatesOf(r, w) = <<>> THEN balance[w]
        ELSE UpdatesOf(r, w)[Len(UpdatesOf(r, w))].balance]
  /\ version' = [w \in WalletIds |-> version[w] + Len(tx[r].bal)]
  /\ transactions' = transactions \o tx[r].txn
  /\ ledger' = ledger \o tx[r].ledger
  /\ idempotency_store' = idempotency_store \cup {tx[r].idem[i] : i \in DOMAIN tx[r].idem}

\* COMMIT that is acknowledged without making anything durable.
CommitLosesWrites(r) == UNCHANGED Store

\* COMMIT: the transaction's writes become the committed rows, all at once.
COMMIT(r) ==
  /\ balance' = [w \in WalletIds |->
        IF UpdatesOf(r, w) = <<>> THEN balance[w]
        ELSE UpdatesOf(r, w)[Len(UpdatesOf(r, w))].balance]
  /\ version' = [w \in WalletIds |-> version[w] + Len(UpdatesOf(r, w))]
  /\ transactions' = transactions \o tx[r].txn
  /\ ledger' = ledger \o tx[r].ledger
  /\ idempotency_store' = idempotency_store \cup {tx[r].idem[i] : i \in DOMAIN tx[r].idem}

\* ROLLBACK that keeps a record of the failed request under its key.
RollbackCachesFailure(r) ==
  /\ idempotency_store' = idempotency_store \cup
        (IF req[r].key = NoKey THEN {}
         ELSE {[key |-> req[r].key, response |-> NoResult, expired |-> FALSE]})
  /\ UNCHANGED <<balance, version, transactions, ledger>>

\* ROLLBACK: the transaction's writes are dropped.
ROLLBACK(r) == UNCHANGED Store

\* Transaction end: every row lock is released.
CloseTransaction(r) ==
  /\ held' = [held EXCEPT ![r] = {}]
  /\ tx' = [tx EXCEPT ![r] = EmptyTx]
  /\ walletMap' = [walletMap EXCEPT ![r] = <<>>]
  /\ found' = [found EXCEPT ![r] = NoWallets]

\* Transaction end: every row lock is released; fn's locals are gone.
EndTransaction(r) ==
  /\ CloseTransaction(r)
  /\ result' = [result EXCEPT ![r] = NoResult]

\* errorHandler that marks nothing as retryable and knows no store code.
ErrorResponseAllInternal(e) ==
  IF e \in {"NOT_FOUND", "VALIDATION_ERROR", "INSUFFICIENT_BALANCE"}
  THEN [NoResp EXCEPT !.status = 400, !.code = e]
  ELSE [NoResp EXCEPT !.status = 500, !.code = "INTERNAL_ERROR"]

\* errorHandler: the response for an error that needs no further query.
ErrorResponse(e) ==
  CASE e = "NOT_FOUND" -> [NoResp EXCEPT !.status = 404, !.code = "NOT_FOUND"]
    [] e = "VALIDATION_ERROR" -> [NoResp EXCEPT !.status = 400, !.code = "VALIDATION_ERROR"]
    [] e = "INSUFFICIENT_BALANCE" ->
         [NoResp EXCEPT !.status = 422, !.code = "INSUFFICIENT_BALANCE"]
    [] e = "23505" -> [NoResp EXCEPT !.status = 409, !.code = "DUPLICATE_TRANSACTION"]
    [] e = "23514" -> [NoResp EXCEPT !.status = 422, !.code = "CONSTRAINT_VIOLATION"]
    [] e = "40P01" -> [NoResp EXCEPT !.status = 503, !.code = "DEADLOCK_DETECTED",
                                      !.retryable = TRUE]
    [] e = "40001" -> [NoResp EXCEPT !.status = 503, !.code = "SERIALIZATION_FAILURE",
                                      !.retryable = TRUE]
    [] OTHER -> [NoResp EXCEPT !.status = 500, !.code = "INTERNAL_ERROR"]

\* topUp, issueBonus: Treasury -> user; purchase: user -> Revenue.
sourceWalletId(r) == IF req[r].op = "PURCHASE" THEN found[r].user ELSE found[r].sys
destWalletId(r) == IF req[r].op = "PURCHASE" THEN found[r].sys ELSE found[r].user

\* new InsufficientBalanceError(sourceWalletId, amount, sourceWallet.balance);
\* errorHandler copies walletId, requested and available into the response.
ErrorDetails(r, e) ==
  IF e = "INSUFFICIENT_BALANCE"
  THEN [walletId |-> sourceWalletId(r), requested |-> req[r].amount,
        available |-> walletMap[r][sourceWalletId(r)]]
  ELSE NoError

RollbackPublishes(r) == COMMIT(r)

\* withTransaction's catch: what the failed transaction leaves in the store.
OnError(r) == ROLLBACK(r)

\* An error thrown inside fn, or a rejected client.query:
\* catch (error) { await client.query('ROLLBACK'); throw error; } finally
\* { client.release(); } -- then next(error) reaches errorHandler, which answers
\* at once unless the error is a unique violation of a request with a key.
\* While the ROLLBACK is on its way the transaction still holds its locks, as
\* it did before the error, so the catch is one step with the error.
ThrowAtOnce(r, e) ==
  /\ err' = [err EXCEPT ![r] = e]
  /\ OnError(r)
  /\ EndTransaction(r)
  /\ release(r)
  /\ IF e = "23505" /\ req[r].key # NoKey
     THEN pc' = [pc EXCEPT ![r] = "recover"] /\ UNCHANGED resp
     ELSE /\ pc' = [pc EXCEPT ![r] = "done"]
          /\ resp' = [resp EXCEPT ![r] =
                [ErrorResponse(e) EXCEPT !.error = ErrorDetails(r, e)]]
  /\ UNCHANGED req

\* The same taken statement by statement: control enters the catch block with
\* the error object (its walletId, requested and available kept in resp until
\* the response is sent); the transaction is still open.
Caught(r, e) ==
  /\ err' = [err EXCEPT ![r] = e]
  /\ resp' = [resp EXCEPT ![r] = [NoResp EXCEPT !.error = ErrorDetails(r, e)]]
  /\ pc' = [pc EXCEPT ![r] = "rollback"]
  /\ UNCHANGED <<Store, pool, req, held, walletMap, found, tx, result>>

Throw(r, e) == IF pool.steps THEN Caught(r, e) ELSE ThrowAtOnce(r, e)

\* ------------------------------------------------------------ request steps
Init ==
  /\ balance = InitialBalance
  /\ version = [w \in WalletIds |-> 1]
  /\ transactions = <<>>
  /\ ledger = <<>>
  /\ idempotency_store = {}
  /\ pc = [r \in Reqs |-> "idle"]
  /\ req = [r \in Reqs |-> NoReq]
  /\ held = [r \in Reqs |-> {}]
  /\ walletMap = [r \in Reqs |-> <<>>]
  /\ found = [r \in Reqs |-> NoWallets]
  /\ tx = [r \in Reqs |-> EmptyTx]
  /\ result = [r \in Reqs |-> NoResult]
  /\ err = [r \in Reqs |-> ""]
  /\ resp = [r \in Reqs |-> NoResp]
  /\ pool = NewPool(POOL_MAX, FALSE)

\* Keys are opaque: the first request to carry a key carries key 1, the next
\* new key is 2, and so on (any other naming is a renaming of these).
UsedKeys == {req[q].key : q \in Reqs} \ {NoKey}
KeyChoices == {NoKey} \cup {k \in Keys : k <= Cardinality(UsedKeys) + 1}

\* The arguments of a request other than its key.
Args(q) == <<q.op, q.userId, q.assetCode, q.amount>>

\* The workloads explored: any two requests, or any number of repetitions of
\* one request (the same operation and arguments) that all carry one key, all
\* carry no key, or carry a key each.
Admitted(r, new) ==
  \/ r <= 2
  \/ /\ \A q \in Reqs : q < r => Args(req[q]) = Args(new)
     /\ LET ks == {req[q].key : q \in 1..(r - 1)}
        IN \/ ks = {new.key}
           \/ new.key \notin ks \cup {NoKey} /\ NoKey \notin ks /\ Cardinality(ks) = r - 1

\* The route handler calls topUp / issueBonus / purchase: validation passes,
\* withTransaction takes a connection and issues BEGIN.  Requests are numbered
\* in the order they arrive.
Submit(r) ==
  /\ pc[r] = "idle"
  /\ \A q \in Reqs : q < r => pc[q] # "idle"
  /\ \E op \in OpTypes, u \in Users, a \in AssetCodes, n \in Amounts, k \in KeyChoices :
       LET new == [op |-> op, userId |-> u, assetCode |-> a, amount |-> n, key |-> k]
       IN Admitted(r, new) /\ req' = [req EXCEPT ![r] = new]
  /\ PoolFree
  /\ connect(r)
  /\ pc' = [pc EXCEPT ![r] = "lookup"]
  /\ UNCHANGED <<Store, held, walletMap, found, tx, result, err, resp>>

\* const cached = await checkIdempotencyKey(client, idempotencyKey);
\* if (cached) return { ...cached.response, idempotent: true };
Lookup(r) ==
  /\ pc[r] = "lookup"
  /\ LET cached == checkIdempotencyKey(req[r].key, tx[r].now) IN
       IF cached # {}
       THEN /\ result' = [result EXCEPT ![r] =
                 [(CHOOSE rec \in cached : TRUE).response EXCEPT !.idempotent = TRUE]]
            /\ pc' = [pc EXCEPT ![r] = "commit"]
       ELSE /\ pc' = [pc EXCEPT ![r] = "findUser"]
            /\ UNCHANGED result
  /\ UNCHANGED <<Store, pool, req, held, walletMap, found, tx, err, resp>>

\* The texts the store accepts as a uuid (names stand for well-formed ids).
UuidTexts == Users \cup SYSTEM_ACCOUNTS \cup {"carol"}
IsUuid(text) == text \in UuidTexts

\* const userWallet = await findWallet(client, userId, assetCode);
\* "WHERE w.user_id = $1" compares a UUID column: a parameter that is not a
\* uuid makes the statement fail (SQLSTATE 22P02).
FindUserWallet(r) ==
  /\ pc[r] = "findUser"
  /\ LET rows == findWallet(req[r].userId, req[r].assetCode) IN
       IF ~IsUuid(req[r].userId)
       THEN Throw(r, "22P02")
       ELSE IF rows = {}
       THEN Throw(r, "NOT_FOUND")
       ELSE /\ found' = [found EXCEPT ![r].user = CHOOSE w \in rows : TRUE]
            /\ pc' = [pc EXCEPT ![r] = "findSys"]
            /\ UNCHANGED <<Store, pool, req, held, walletMap, tx, result, err, resp>>

SystemAccountAlwaysTreasury(op) == TREASURY

\* the system account on the other side of the user's wallet
SystemAccountOf(op) == IF op = "PURCHASE" THEN REVENUE ELSE TREASURY

\* const treasuryWallet / revenueWallet =
\*   await findWallet(client, SYSTEM_ACCOUNTS.TREASURY / .REVENUE, assetCode);
FindSystemWallet(r) ==
  /\ pc[r] = "findSys"
  /\ LET rows == findWallet(SystemAccountOf(req[r].op), req[r].assetCode) IN
       IF rows = {}
       THEN Throw(r, "NOT_FOUND")
       ELSE /\ found' = [found EXCEPT ![r].sys = CHOOSE w \in rows : TRUE]
            /\ pc' = [pc EXCEPT ![r] = "lock"]
            /\ UNCHANGED <<Store, pool, req, held, walletMap, tx, result, err, resp>>

\* lockWalletsInOrder(client, [sourceWalletId, destWalletId])
walletIds(r) == <<sourceWalletId(r), destWalletId(r)>>
sortedIds(r) == Sort(walletIds(r))

\* lockWalletsInOrder's statement for every pair of existing wallet ids: the
\* rows it returns and the row locks it takes, in order.  Both depend on the
\* ids alone, so they are tabulated once (@@ turns the rule into a table).
LockPlan ==
  [ids \in WalletIds \X WalletIds |->
     [rows |-> SelectedRows(Sort(ids)), locks |-> LockSequence(SelectedRows(Sort(ids)))]]
  @@ <<>>
ResultRows(r) == LockPlan[walletIds(r)].rows
LockRows(r) == LockPlan[walletIds(r)].locks

NeverLocked(r, row) == FALSE

\* FOR UPDATE: a row locked by another open transaction makes this one wait.
LockedByOther(r, row) == \E q \in Reqs \ {r} : row \in held[q]

\* The first row of the statement this transaction does not hold yet.
NextRow(r) ==
  LET todo == SelectSeq(LockRows(r), LAMBDA row : row \notin held[r])
  IN IF todo = <<>> THEN <<>> ELSE Head(todo)

\* lockWalletsInOrder that reads both wallets and returns without locking a row.
LockRowWithoutLock(r) ==
  /\ pc[r] = "lock"
  /\ walletMap' = [walletMap EXCEPT ![r] =
        [w \in {sourceWalletId(r), destWalletId(r)} |-> pgText(balance[w])]]
  /\ pc' = [pc EXCEPT ![r] = "check"]
  /\ UNCHANGED <<Store, pool, req, held, found, tx, result, err, resp>>

\* One row lock of the SELECT ... FOR UPDATE statement.  The row read is the
\* latest committed one (READ COMMITTED re-reads a row it had to wait for).
\* When the last row is locked the statement returns and the row count is
\* compared with walletIds.length.
LockRow(r) ==
  /\ pc[r] = "lock"
  /\ \E row \in {NextRow(r)} \ {<<>>} :
     /\ ~LockedByOther(r, row)
     /\ LET heldNow == held[r] \cup {row}
            last == \A i \in DOMAIN LockRows(r) : LockRows(r)[i] \in heldNow
        IN IF last /\ Len(ResultRows(r)) # Len(walletIds(r))
           THEN Throw(r, "NOT_FOUND")
           ELSE /\ held' = [held EXCEPT ![r] = heldNow]
                /\ walletMap' = [walletMap EXCEPT ![r] =
                     IF row[1] = "wallets" THEN (row[2] :> pgText(balance[row[2]])) @@ @ ELSE @]
                /\ pc' = [pc EXCEPT ![r] = IF last THEN "check" ELSE "lock"]
                /\ UNCHANGED <<Store, pool, req, found, tx, result, err, resp>>

InsufficientNever(r) == FALSE

\* !sourceWallet.allow_negative && sourceWallet.balance < amount
Insufficient(r) ==
  /\ ~allow_negative(sourceWalletId(r))
  /\ parseInt(walletMap[r][sourceWalletId(r)]).val < req[r].amount

CheckBalance(r) ==
  /\ pc[r] = "check"
  /\ IF Insufficient(r)
     THEN Throw(r, "INSUFFICIENT_BALANCE")
     ELSE /\ pc' = [pc EXCEPT ![r] = "updSrc"]
          /\ UNCHANGED <<Store, pool, req, held, walletMap, found, tx, result, err, resp>>

sourceBalanceBefore(r) == parseInt(walletMap[r][sourceWalletId(r)]).val
destBalanceBefore(r) == parseInt(walletMap[r][destWalletId(r)]).val
sourceBalanceAfter(r) == sourceBalanceBefore(r) - req[r].amount
destBalanceAfterLost(r) == destBalanceBefore(r)
destBalanceAfter(r) == destBalanceBefore(r) + req[r].amount

\* UPDATE wallets SET balance = $1, version = version + 1 WHERE id = $2
UpdateWallet(r, w, bal, next) ==
  IF ~chk_wallet_balance(w, bal)
  THEN Throw(r, "23514")
  ELSE /\ tx' = [tx EXCEPT ![r].bal = Append(@, [wallet |-> w, balance |-> bal])]
       /\ pc' = [pc EXCEPT ![r] = next]
       /\ UNCHANGED <<Store, pool, req, held, walletMap, found, result, err, resp>>

UpdateSource(r) ==
  /\ pc[r] = "updSrc"
  /\ UpdateWallet(r, sourceWalletId(r), sourceBalanceAfter(r), "updDst")

UpdateDest(r) ==
  /\ pc[r] = "updDst"
  /\ UpdateWallet(r, destWalletId(r), destBalanceAfter(r), "insTxn")

\* const txnId = uuidv4(): fresh; request r draws at most one, named r.
txnId(r) == r

\* A uniqueness check waits for an uncommitted row with the same key.
PendingKeyElsewhere(r, key) ==
  key # NoKey /\ \E q \in Reqs \ {r} :
     \E i \in DOMAIN tx[q].txn : tx[q].txn[i].idempotency_key = key

\* INSERT INTO transactions (...) VALUES ($1, $2, $3, 'COMPLETED', ...)
InsertTransaction(r) ==
  /\ pc[r] = "insTxn"
  /\ ~PendingKeyElsewhere(r, req[r].key)
  /\ IF UniqueViolation(req[r].key)
     THEN Throw(r, "23505")
     ELSE /\ tx' = [tx EXCEPT ![r].txn = Append(@,
                 [id |-> txnId(r), idempotency_key |-> req[r].key,
                  transaction_type |-> req[r].op, status |-> "COMPLETED",
                  source_wallet_id |-> sourceWalletId(r),
                  dest_wallet_id |-> destWalletId(r),
                  asset |-> WalletTable[found[r].user].asset,
                  amount |-> req[r].amount])]
          /\ pc' = [pc EXCEPT ![r] = "insDebit"]
          /\ UNCHANGED <<Store, pool, req, held, walletMap, found, result, err, resp>>

LedgerRowDebit(t, w, type, amount, before, after) ==
  [transaction_id |-> t, wallet_id |-> w, entry_type |-> "DEBIT", amount |-> amount,
   balance_before |-> before, balance_after |-> after]

LedgerRow(t, w, type, amount, before, after) ==
  [transaction_id |-> t, wallet_id |-> w, entry_type |-> type, amount |-> amount,
   balance_before |-> before, balance_after |-> after]

\* INSERT INTO ledger_entries (...) VALUES ($1, $2, 'DEBIT', $3, $4, $5)
InsertDebit(r) ==
  /\ pc[r] = "insDebit"
  /\ tx' = [tx EXCEPT ![r].ledger = Append(@,
        LedgerRow(txnId(r), sourceWalletId(r), "DEBIT", req[r].amount,
                  sourceBalanceBefore(r), sourceBalanceAfter(r)))]
  /\ pc' = [pc EXCEPT ![r] = "insCredit"]
  /\ UNCHANGED <<Store, pool, req, held, walletMap, found, result, err, resp>>

\* The value executeTransfer returns.
TransferResult(r) ==
  [transactionId |-> txnId(r), transactionType |-> req[r].op,
   source |-> sourceWalletId(r), dest |-> destWalletId(r),
   sourceBefore |-> sourceBalanceBefore(r), sourceAfter |-> sourceBalanceAfter(r),
   destBefore |-> destBalanceBefore(r), destAfter |-> destBalanceAfter(r),
   amount |-> req[r].amount, idempotent |-> FALSE]

\* INSERT INTO ledger_entries (...) VALUES ($1, $2, 'CREDIT', $3, $4, $5);
\* executeTransfer returns; storeIdempotencyKey returns at once without a key.
InsertCredit(r) ==
  /\ pc[r] = "insCredit"
  /\ tx' = [tx EXCEPT ![r].ledger = Append(@,
        LedgerRow(txnId(r), destWalletId(r), "CREDIT", req[r].amount,
                  destBalanceBefore(r), destBalanceAfter(r)))]
  /\ result' = [result EXCEPT ![r] = TransferResult(r)]
  /\ pc' = [pc EXCEPT ![r] = IF req[r].key = NoKey THEN "commit" ELSE "store"]
  /\ UNCHANGED <<Store, pool, req, held, walletMap, found, err, resp>>

PendingRecordElsewhere(r, key) ==
  \E q \in Reqs \ {r} : \E i \in DOMAIN tx[q].idem : tx[q].idem[i].key = key

\* storeIdempotencyKey that returns without writing.
StoreNothing(r) ==
  /\ pc[r] = "store"
  /\ pc' = [pc EXCEPT ![r] = "commit"]
  /\ UNCHANGED <<Store, pool, req, held, walletMap, found, tx, result, err, resp>>

\* INSERT INTO idempotency_store (key, response, status_code)
\* VALUES ($1, $2, $3) ON CONFLICT (key) DO NOTHING
StoreIdempotencyKey(r) ==
  /\ pc[r] = "store"
  /\ ~PendingRecordElsewhere(r, req[r].key)
  /\ tx' = [tx EXCEPT ![r].idem =
        IF \E rec \in idempotency_store : rec.key = req[r].key THEN @
        ELSE Append(@, [key |-> req[r].key, response |-> result[r], expired |-> FALSE])]
  /\ pc' = [pc EXCEPT ![r] = "commit"]
  /\ UNCHANGED <<Store, pool, req, held, walletMap, found, result, err, resp>>

\* await client.query('COMMIT'); return result; -- then the route handler:
\* const statusCode = result.idempotent ? 200 : 201; res.status(statusCode).json(...)
Success(payload) ==
  [NoResp EXCEPT !.status = IF payload.idempotent THEN 200 ELSE 201,
                 !.code = "OK", !.data = payload, !.note = payload.idempotent]

Commit(r) ==
  /\ pc[r] = "commit"
  /\ COMMIT(r)
  /\ IF pool.steps
     THEN /\ CloseTransaction(r)
          /\ pc' = [pc EXCEPT ![r] = "release"]
          /\ UNCHANGED <<pool, result, resp>>
     ELSE /\ EndTransaction(r)
          /\ release(r)
          /\ resp' = [resp EXCEPT ![r] = Success(result[r])]
          /\ pc' = [pc EXCEPT ![r] = "done"]
  /\ UNCHANGED <<req, err>>

\* query('SELECT response, status_code FROM idempotency_store WHERE key = $1')
\* on a pooled connection, outside any transaction.
Recover(r) ==
  /\ pc[r] = "recover"
  /\ PoolFree
  /\ LET rows == recoveryLookup(req[r].key) IN
       resp' = [resp EXCEPT ![r] =
         IF rows # {}
         THEN [NoResp EXCEPT !.status = 200, !.code = "OK", !.note = TRUE,
                             !.data = (CHOOSE rec \in rows : TRUE).response]
         ELSE ErrorResponse("23505")]
  /\ pc' = [pc EXCEPT ![r] = "done"]
  /\ UNCHANGED <<Store, pool, req, held, walletMap, found, tx, result, err>>

\* The recovery query rejects: .catch(() => res.status(409)...).
RecoveryFailure(r) ==
  /\ pc[r] = "recover"
  /\ err' = [err EXCEPT ![r] = "57014"]
  /\ resp' = [resp EXCEPT ![r] = ErrorResponse("23505")]
  /\ pc' = [pc EXCEPT ![r] = "done"]
  /\ UNCHANGED <<Store, pool, req, held, walletMap, found, tx, result>>

\* The statements a request awaits inside its transaction.
StatementPcs == {"begin", "lookup", "findUser", "findSys", "lock", "updSrc", "updDst",
                 "insTxn", "insDebit", "insCredit", "store", "commit"}

\* A statement fails for a reason of the store's own (statement_timeout,
\* a cancelled request, a lost connection): client.query rejects.
StoreFailure(r) ==
  /\ pc[r] \in StatementPcs
  /\ Throw(r, "57014")

\* The transaction a blocked statement of r waits for, None if not blocked.
Blocker(r) ==
  IF pc[r] = "lock" /\ NextRow(r) # <<>> /\ LockedByOther(r, NextRow(r))
  THEN CHOOSE q \in Reqs \ {r} : NextRow(r) \in held[q]
  ELSE IF pc[r] = "insTxn" /\ PendingKeyElsewhere(r, req[r].key)
  THEN CHOOSE q \in Reqs \ {r} :
         \E i \in DOMAIN tx[q].txn : tx[q].txn[i].idempotency_key = req[r].key
  ELSE IF pc[r] = "store" /\ PendingRecordElsewhere(r, req[r].key)
  THEN CHOOSE q \in Reqs \ {r} :
         \E i \in DOMAIN tx[q].idem : tx[q].idem[i].key = req[r].key
  ELSE None

RECURSIVE WaitsOn(_, _, _)
WaitsOn(a, b, n) ==
  /\ n > 0
  /\ \E q \in {Blocker(a)} : q # None /\ (q = b \/ WaitsOn(q, b, n - 1))

NoCycleFound(r) == FALSE

InCycle(r) == WaitsOn(r, r, NReq)

\* The store's deadlock detector aborts a transaction of a wait cycle: its
\* statement fails with SQLSTATE 40P01.
DeadlockAbort(r) ==
  /\ pc[r] \in {"lock", "insTxn", "store"}
  /\ InCycle(r)
  /\ Throw(r, "40P01")

Next ==
  \E r \in Reqs :
    \/ Submit(r)
    \/ Lookup(r)
    \/ FindUserWallet(r)
    \/ FindSystemWallet(r)
    \/ LockRow(r)
    \/ CheckBalance(r)
    \/ UpdateSource(r)
    \/ UpdateDest(r)
    \/ InsertTransaction(r)
    \/ InsertDebit(r)
    \/ InsertCredit(r)
    \/ StoreIdempotencyKey(r)
    \/ Commit(r)
    \/ StoreFailure(r)
    \/ DeadlockAbort(r)
    \/ Recover(r)
    \/ RecoveryFailure(r)

Spec == Init /\ [][Next]_vars

\* ------------------------------------------------------------ HTTP front end
\* A JavaScript value of a request: undefined, a string, a number n/d (d = 0:
\* NaN) or a boolean.
Undefined == [t |-> "undefined", s |-> "", n |-> 0, d |-> 1]
Str(x) == [t |-> "string", s |-> x, n |-> 0, d |-> 1]
Number(n, d) == [t |-> "number", s |-> "", n |-> n, d |-> d]
Bool(b) == [t |-> "boolean", s |-> "", n |-> IF b THEN 1 ELSE 0, d |-> 1]

\* if (v), !v
Truthy(v) ==
  CASE v.t = "string" -> v.s # ""
    [] v.t = "number" -> v.d # 0 /\ v.n # 0
    [] v.t = "boolean" -> v.n = 1
    [] OTHER -> FALSE

\* a || b
Or(a, b) == IF Truthy(a) THEN a ELSE b

NumberIsInteger(v) == v.t = "number" /\ v.d # 0 /\ v.n % v.d = 0

MAX_KEY_LENGTH == 255

RECURSIVE KeyText(_)
KeyText(n) ==
  IF n = 0 THEN ""
  ELSE IF n % 2 = 0 THEN LET half == KeyText(n \div 2) IN half \o half
  ELSE "k" \o KeyText(n - 1)

\* The requests tried: bodies and headers of POST /wallets/topup, /bonus
\* and /purchase.
RawUserIds == {Undefined, Str(""), Str("alice"), Str("carol"), Str("not-a-uuid"),
               Str(TREASURY), Str(REVENUE)}
RawAssetCodes == {Undefined, Str(""), Str("GOLD"), Str("SILVER")}
RawAmounts == {Undefined, Str("1"), Number(0, 0), Number(0, 1), Number(0 - 1, 1),
               Number(1, 1), Number(2, 1), Number(3, 2)}
RawHeaderKeys == {Undefined, Str(KeyText(1)), Str(KeyText(MAX_KEY_LENGTH)),
                  Str(KeyText(MAX_KEY_LENGTH + 1))}
RawBodyKeys == {Undefined, Str(KeyText(2)), Number(5, 1), Number(0, 1), Bool(TRUE)}

RawTransfers ==
  [op : OpTypes, userId : RawUserIds, assetCode : RawAssetCodes, amount : RawAmounts,
   headerKey : RawHeaderKeys, bodyKey : RawBodyKeys]

HttpReqs == {1}

\* A request as received: nothing extracted from it yet.
Received(raw) ==
  [op |-> raw.op, userId |-> "", assetCode |-> "", amount |-> 0, key |-> NoKey,
   idempotencyKey |-> Undefined, limit |-> 0, offset |-> 0, raw |-> raw]

\* idempotencyMiddleware
idempotencyMiddleware(r) ==
  /\ pc[r] = "received"
  /\ LET idempotencyKey == Or(req[r].raw.headerKey, req[r].raw.bodyKey) IN
       IF /\ Truthy(idempotencyKey)
          /\ (idempotencyKey.t # "string" \/ Len(idempotencyKey.s) > MAX_KEY_LENGTH)
       THEN /\ resp' = [resp EXCEPT ![r] = ErrorResponse("VALIDATION_ERROR")]
            /\ pc' = [pc EXCEPT ![r] = "done"]
            /\ UNCHANGED req
       ELSE /\ req' = [req EXCEPT ![r].idempotencyKey =
                       IF Truthy(idempotencyKey) THEN idempotencyKey ELSE Undefined]
            /\ pc' = [pc EXCEPT ![r] = "route"]
            /\ UNCHANGED resp
  /\ UNCHANGED <<Store, pool, held, walletMap, found, tx, result, err>>

InvalidIgnoresAmount(raw) == ~Truthy(raw.userId) \/ ~Truthy(raw.assetCode)

\* topUp / issueBonus / purchase: "Input validation"
InvalidTransferInput(raw) ==
  \/ ~Truthy(raw.userId)
  \/ ~Truthy(raw.assetCode)
  \/ ~NumberIsInteger(raw.amount)
  \/ raw.amount.n <= 0

\* router.post('/wallets/topup' | '/wallets/bonus' | '/wallets/purchase'):
\* the service validates its arguments and throws ValidationError, or calls
\* db.withTransaction (a connection, BEGIN).
TransferRoute(r) ==
  /\ pc[r] = "route"
  /\ req[r].raw.op \in OpTypes
  /\ LET raw == req[r].raw IN
       IF InvalidTransferInput(raw)
       THEN /\ err' = [err EXCEPT ![r] = "VALIDATION_ERROR"]
            /\ resp' = [resp EXCEPT ![r] = ErrorResponse("VALIDATION_ERROR")]
            /\ pc' = [pc EXCEPT ![r] = "done"]
            /\ UNCHANGED <<req, pool>>
       ELSE /\ req' = [req EXCEPT
                  ![r].userId = raw.userId.s,
                  ![r].assetCode = raw.assetCode.s,
                  ![r].amount = IF NumberIsInteger(raw.amount)
                                THEN raw.amount.n \div raw.amount.d ELSE 0,
                  ![r].key = IF Truthy(req[r].idempotencyKey) THEN 1 ELSE NoKey]
            /\ pc' = [pc EXCEPT ![r] = "lookup"]
            /\ PoolFree
            /\ connect(r)
            /\ UNCHANGED <<err, resp>>
  /\ UNCHANGED <<Store, held, walletMap, found, tx, result>>

\* A query-string parameter: absent, or a text.
NoParam == [present |-> FALSE, text |-> <<>>]
Param(text) == [present |-> TRUE, text |-> text]

QueryTexts ==
  {<<>>, <<"0">>, <<"1">>, <<"2", "0">>, <<"1", "0", "0">>, <<"1", "0", "1">>,
   <<"-", "5">>, <<"a", "b", "c">>, <<"7", "x">>, <<" ", "3">>, <<"1", ".", "5">>}
QueryParams == {NoParam} \cup {Param(text) : text \in QueryTexts}

RawHistories ==
  [op : {"HISTORY"}, userId : {Str("alice"), Str("carol"), Str("not-a-uuid")},
   assetCode : {Undefined, Str("GOLD")}, limit : QueryParams, offset : QueryParams,
   headerKey : {Undefined}, bodyKey : {Undefined}]

DEFAULT_LIMIT == 20
MAX_LIMIT == 100
DEFAULT_OFFSET == 0

\* parseInt(req.query.x): parseInt(undefined) is NaN
QueryInt(q) == IF q.present THEN parseInt(q.text) ELSE NaN

\* x || d for a number x: NaN and 0 are falsy
OrNumber(x, d) == IF x.nan \/ x.val = 0 THEN d ELSE x.val

MathMin(a, b) == IF a <= b THEN a ELSE b

\* const limit = Math.min(parseInt(req.query.limit) || 20, 100);
RouteLimit(raw) == MathMin(OrNumber(QueryInt(raw.limit), DEFAULT_LIMIT), MAX_LIMIT)

\* const offset = parseInt(req.query.offset) || 0;
RouteOffset(raw) == OrNumber(QueryInt(raw.offset), DEFAULT_OFFSET)

RECURSIVE Reverse(_)
Reverse(q) == IF q = <<>> THEN <<>> ELSE Reverse(Tail(q)) \o <<Head(q)>>

\* getTransactions' rows before LIMIT and OFFSET: the ledger entries on the
\* user's wallets (of the asset, if one is given), newest first.
HistoryRows(userId, assetCode) ==
  Reverse(SelectSeq(ledger, LAMBDA e :
    /\ WalletTable[e.wallet_id].user_id = userId
    /\ assetCode \in {"", WalletTable[e.wallet_id].asset}))

\* LIMIT $n OFFSET $m
Page(rows, limit, offset) ==
  SubSeq(rows, offset + 1, MathMin(Len(rows), offset + limit))

\* router.get('/wallets/:userId/transactions') and getTransactions: a pooled
\* query; the store rejects a user id that is no uuid (22P02), a negative
\* LIMIT (2201W) and a negative OFFSET (2201X).
HistoryRoute(r) ==
  /\ pc[r] = "route"
  /\ req[r].raw.op = "HISTORY"
  /\ LET raw == req[r].raw
         limit == RouteLimit(raw)
         offset == RouteOffset(raw)
         assetCode == IF Truthy(raw.assetCode) THEN raw.assetCode.s ELSE ""
         e == IF ~Truthy(raw.userId) THEN "VALIDATION_ERROR"
              ELSE IF ~IsUuid(raw.userId.s) THEN "22P02"
              ELSE IF limit < 0 THEN "2201W"
              ELSE IF offset < 0 THEN "2201X"
              ELSE ""
     IN /\ req' = [req EXCEPT ![r].userId = raw.userId.s, ![r].assetCode = assetCode,
                               ![r].limit = limit, ![r].offset = offset]
        /\ err' = [err EXCEPT ![r] = e]
        /\ resp' = [resp EXCEPT ![r] =
              IF e # "" THEN ErrorResponse(e)
              ELSE [NoResp EXCEPT !.status = 200, !.code = "OK",
                      !.pagination = [limit |-> limit, offset |-> offset,
                        count |-> Len(Page(HistoryRows(raw.userId.s, assetCode), limit, offset))]]]
  /\ pc' = [pc EXCEPT ![r] = "done"]
  /\ UNCHANGED <<Store, pool, held, walletMap, found, tx, result>>

InitHttp ==
  /\ balance = InitialBalance
  /\ version = [w \in WalletIds |-> 1]
  /\ transactions = <<>>
  /\ ledger = <<>>
  /\ idempotency_store = {}
  /\ pc = [r \in Reqs |-> IF r \in HttpReqs THEN "received" ELSE "idle"]
  /\ \E raw \in RawTransfers \cup RawHistories :
       req = [r \in Reqs |-> IF r \in HttpReqs THEN Received(raw) ELSE NoReq]
  /\ held = [r \in Reqs |-> {}]
  /\ walletMap = [r \in Reqs |-> <<>>]
  /\ found = [r \in Reqs |-> NoWallets]
  /\ tx = [r \in Reqs |-> EmptyTx]
  /\ result = [r \in Reqs |-> NoResult]
  /\ err = [r \in Reqs |-> ""]
  /\ resp = [r \in Reqs |-> NoResp]
  /\ pool = NewPool(POOL_MAX, FALSE)

\* One request from the wire to its response.
NextHttp ==
  \E r \in HttpReqs :
    \/ idempotencyMiddleware(r)
    \/ TransferRoute(r)
    \/ HistoryRoute(r)
    \/ Lookup(r)
    \/ FindUserWallet(r)
    \/ FindSystemWallet(r)
    \/ LockRow(r)
    \/ CheckBalance(r)
    \/ UpdateSource(r)
    \/ UpdateDest(r)
    \/ InsertTransaction(r)
    \/ InsertDebit(r)
    \/ InsertCredit(r)
    \/ StoreIdempotencyKey(r)
    \/ Commit(r)
    \/ StoreFailure(r)

SpecHttp == InitHttp /\ [][NextHttp]_vars

\* getBalance(userId, assetCode): the user's wallets (of the asset, if one is
\* given) with balance: parseInt(row.balance).
getBalance(userId, assetCode) ==
  {[walletId |-> w, assetCode |-> WalletTable[w].asset,
    balance |-> parseInt(pgText(balance[w])).val] :
     w \in {x \in WalletIds : /\ WalletTable[x].user_id = userId
                              /\ assetCode \in {"", WalletTable[x].asset}}}

\* ------------------------------------------- withTransaction, step by step
PoolMax == 2       \* largest pool size tried

\* The requests tried here: transfers of one amount on the GOLD wallets of two
\* users, and balance reads.
TxTransfers(keys) ==
  [op : OpTypes, userId : Users, assetCode : {"GOLD"}, amount : {MaxAmount}, key : keys]
BalanceReads ==
  [op : {"BALANCE"}, userId : {"alice", "carol", "not-a-uuid"},
   assetCode : {"", "GOLD"}, amount : {0}, key : {NoKey}]

\* A route handler is entered: a transfer calls db.withTransaction, a balance
\* read calls getBalance.
SubmitTx(r) ==
  /\ pc[r] = "idle"
  /\ \A q \in Reqs : q < r => pc[q] # "idle"
  /\ \E new \in TxTransfers(KeyChoices) \cup BalanceReads :
       /\ Admitted(r, new)
       /\ req' = [req EXCEPT ![r] = new]
       /\ pc' = [pc EXCEPT ![r] = IF new.op = "BALANCE" THEN "read" ELSE "connect"]
  /\ UNCHANGED <<Store, pool, held, walletMap, found, tx, result, err, resp>>

\* const client = await pool.connect(); -- waits while the pool is exhausted
Connect(r) ==
  /\ pc[r] = "connect"
  /\ PoolFree
  /\ connect(r)
  /\ pc' = [pc EXCEPT ![r] = "begin"]
  /\ UNCHANGED <<Store, req, held, walletMap, found, tx, result, err, resp>>

\* connectionTimeoutMillis: pool.connect() rejects after 5 s without a
\* connection; the call is outside the try block.
ConnectTimeout(r) ==
  /\ pc[r] = "connect"
  /\ ~PoolFree
  /\ err' = [err EXCEPT ![r] = "CONNECT_TIMEOUT"]
  /\ pc' = [pc EXCEPT ![r] = "handler"]
  /\ UNCHANGED <<Store, pool, req, held, walletMap, found, tx, result, resp>>

\* The keys whose records are past their expires_at.
ExpiredKeys == {rec.key : rec \in {x \in idempotency_store : x.expired}}

\* await client.query('BEGIN');
Begin(r) ==
  /\ pc[r] = "begin"
  /\ tx' = [tx EXCEPT ![r].now = ExpiredKeys]
  /\ pc' = [pc EXCEPT ![r] = "lookup"]
  /\ UNCHANGED <<Store, pool, req, held, walletMap, found, result, err, resp>>

\* catch (error) { await client.query('ROLLBACK'); throw error; }
Rollback(r) ==
  /\ pc[r] = "rollback"
  /\ ROLLBACK(r)
  /\ EndTransaction(r)
  /\ pc' = [pc EXCEPT ![r] = "release"]
  /\ UNCHANGED <<pool, req, err, resp>>

\* The ROLLBACK statement rejects (the connection is lost): the await throws
\* inside the catch block, so "throw error" is not reached and the rejection
\* of ROLLBACK is what leaves withTransaction.  The server ends the session
\* and with it the transaction.
RollbackFailure(r) ==
  /\ pc[r] = "rollback"
  /\ ROLLBACK(r)
  /\ EndTransaction(r)
  /\ err' = [err EXCEPT ![r] = "08006"]
  /\ resp' = [resp EXCEPT ![r] = NoResp]
  /\ pc' = [pc EXCEPT ![r] = "release"]
  /\ UNCHANGED <<pool, req>>

\* finally { client.release(); }
Release(r) ==
  /\ pc[r] = "release"
  /\ release(r)
  /\ pc' = [pc EXCEPT ![r] = IF err[r] = "" THEN "reply" ELSE "handler"]
  /\ UNCHANGED <<Store, req, held, walletMap, found, tx, result, err, resp>>

\* return result; -- and the route: res.status(statusCode).json(...)
Reply(r) ==
  /\ pc[r] = "reply"
  /\ resp' = [resp EXCEPT ![r] = Success(result[r])]
  /\ result' = [result EXCEPT ![r] = NoResult]
  /\ pc' = [pc EXCEPT ![r] = "done"]
  /\ UNCHANGED <<Store, pool, req, held, walletMap, found, tx, err>>

\* next(error): errorHandler
HandleError(r) ==
  /\ pc[r] = "handler"
  /\ IF err[r] = "23505" /\ req[r].key # NoKey
     THEN pc' = [pc EXCEPT ![r] = "recover"] /\ UNCHANGED resp
     ELSE /\ pc' = [pc EXCEPT ![r] = "done"]
          /\ resp' = [resp EXCEPT ![r] =
                [ErrorResponse(err[r]) EXCEPT !.error = resp[r].error]]
  /\ UNCHANGED <<Store, pool, req, held, walletMap, found, tx, result, err>>

\* router.get('/wallets/:userId/balance') and getBalance: one pooled query,
\* outside any transaction.
ReadBalance(r) ==
  /\ pc[r] = "read"
  /\ PoolFree
  /\ LET rows == getBalance(req[r].userId, req[r].assetCode)
         e == IF ~IsUuid(req[r].userId) THEN "22P02"
              ELSE IF rows = {} THEN "NOT_FOUND"
              ELSE ""
     IN /\ err' = [err EXCEPT ![r] = e]
        /\ resp' = [resp EXCEPT ![r] =
              IF e # "" THEN ErrorResponse(e)
              ELSE [NoResp EXCEPT !.status = 200, !.code = "OK", !.balances = rows]]
  /\ pc' = [pc EXCEPT ![r] = "done"]
  /\ UNCHANGED <<Store, pool, req, held, walletMap, found, tx, result>>

\* db.query rejects: no connection within connectionTimeoutMillis, or the
\* statement fails for a reason of the store's own.
QueryFailure(r) ==
  /\ pc[r] = "read"
  /\ err' = [err EXCEPT ![r] = "57014"]
  /\ resp' = [resp EXCEPT ![r] = ErrorResponse("57014")]
  /\ pc' = [pc EXCEPT ![r] = "done"]
  /\ UNCHANGED <<Store, pool, req, held, walletMap, found, tx, result>>

\* Time passes a record's expires_at (created_at + 24 hours).
Expire(k) ==
  /\ \E rec \in idempotency_store :
       /\ rec.key = k
       /\ ~rec.expired
       /\ idempotency_store' =
            (idempotency_store \ {rec}) \cup {[rec EXCEPT !.expired = TRUE]}
  /\ UNCHANGED <<balance, version, transactions, ledger, pc, req, held, walletMap,
                 found, tx, result, err, resp, pool>>

InitTx ==
  /\ balance = InitialBalance
  /\ version = [w \in WalletIds |-> 1]
  /\ transactions = <<>>
  /\ ledger = <<>>
  /\ idempotency_store = {}
  /\ pc = [r \in Reqs |-> "idle"]
  /\ req = [r \in Reqs |-> NoReq]
  /\ held = [r \in Reqs |-> {}]
  /\ walletMap = [r \in Reqs |-> <<>>]
  /\ found = [r \in Reqs |-> NoWallets]
  /\ tx = [r \in Reqs |-> EmptyTx]
  /\ result = [r \in Reqs |-> NoResult]
  /\ err = [r \in Reqs |-> ""]
  /\ resp = [r \in Reqs |-> NoResp]
  /\ \E max \in 1..PoolMax : pool = NewPool(max, TRUE)

\* What a started request does next when nothing fails for a reason of the
\* store's own.
Progress(r) ==
  \/ Connect(r)
  \/ ConnectTimeout(r)
  \/ Begin(r)
  \/ Lookup(r)
  \/ FindUserWallet(r)
  \/ FindSystemWallet(r)
  \/ LockRow(r)
  \/ CheckBalance(r)
  \/ UpdateSource(r)
  \/ UpdateDest(r)
  \/ InsertTransaction(r)
  \/ InsertDebit(r)
  \/ InsertCredit(r)
  \/ StoreIdempotencyKey(r)
  \/ Commit(r)
  \/ DeadlockAbort(r)
  \/ Rollback(r)
  \/ Release(r)
  \/ Reply(r)
  \/ HandleError(r)
  \/ Recover(r)
  \/ ReadBalance(r)

Failure(r) ==
  \/ StoreFailure(r)
  \/ RollbackFailure(r)
  \/ RecoveryFailure(r)
  \/ QueryFailure(r)

NextTx ==
  \/ \E r \in Reqs : SubmitTx(r)
  \/ \E r \in Reqs : Progress(r)
  \/ \E r \in Reqs : Failure(r)
  \/ \E k \in Keys : Expire(k)

SpecTx == InitTx /\ [][NextTx]_vars

\* Scheduling: the event loop runs every continuation that is ready; the
\* store executes every statement it has received, grants a lock once it is
\* free, and runs its deadlock detector.  Nothing is assumed about failures.
FairTx == \A r \in Reqs : WF_vars(Progress(r))

SpecTxFair == SpecTx /\ FairTx

\* ------------------------------------------------------------------ claims
Done(r) == pc[r] = "done"
AllDone == \A r \in Reqs : Done(r)
Created(r) == Done(r) /\ resp[r].status = 201
Replayed(r) == Done(r) /\ resp[r].status = 200
Failed(r, code) == Done(r) /\ resp[r].code = code
NoStoreFault == \A r \in Reqs : err[r] # "57014"

RECURSIVE SumOver(_, _)
SumOver(S, f) ==
  IF S = {} THEN 0
  ELSE LET x == CHOOSE y \in S : TRUE IN f[x] + SumOver(S \ {x}, f)

EntriesOn(w) == SelectSeq(ledger, LAMBDA e : e.wallet_id = w)
EntriesOf(t) == SelectSeq(ledger, LAMBDA e : e.transaction_id = t)
TxnsWithKey(k) == {i \in DOMAIN transactions : transactions[i].idempotency_key = k}
Min(a, b) == IF a <= b THEN a ELSE b

\* C1: at every commit boundary every wallet whose allow_negative column is
\* false has a committed balance >= 0.
C1_BalanceFloor ==
  \A w \in WalletIds : ~WalletTable[w].allow_negative => balance[w] >= 0

\* C1 witness: a purchase has emptied a user wallet and another purchase on
\* the same wallet was refused.
C1_Witness ==
  \E r, q \in Reqs :
    /\ Created(r) /\ req[r].op = "PURCHASE"
    /\ ~WalletTable[resp[r].data.source].allow_negative
    /\ balance[resp[r].data.source] = 0
    /\ Failed(q, "INSUFFICIENT_BALANCE") /\ Args(req[q]) = Args(req[r])

\* C2: no two committed Transactions share a non-null idempotency key.
C2_AtMostOnce ==
  \A i, j \in DOMAIN transactions :
    (i # j /\ transactions[i].idempotency_key # NoKey)
      => transactions[i].idempotency_key # transactions[j].idempotency_key

\* C2 witness: two requests carried the same key, both were answered with
\* success, and the key's Transaction is committed.
C2_Witness ==
  \E r, q \in Reqs :
    /\ r # q /\ req[r].key # NoKey /\ req[r].key = req[q].key
    /\ Created(r) /\ Replayed(q)
    /\ Cardinality(TxnsWithKey(req[r].key)) = 1

\* The same request (operation, arguments, key) submitted by every client.
SameRequestWithKey ==
  /\ AllDone
  /\ \A r, q \in Reqs : Args(req[r]) = Args(req[q]) /\ req[r].key = req[q].key
  /\ \A r \in Reqs : req[r].key # NoKey

\* C3: the same (op, args, key) submitted N times, every submission answered
\* with success: one Transaction is committed, the N responses carry the same
\* transactionId, and N-1 of them carry idempotent = true.
C3_SameRequestNTimes ==
  (SameRequestWithKey /\ \A r \in Reqs : Created(r) \/ Replayed(r)) =>
    /\ Cardinality(TxnsWithKey(req[1].key)) = 1
    /\ \A r, q \in Reqs : resp[r].data.transactionId = resp[q].data.transactionId
    /\ Cardinality({r \in Reqs : resp[r].data.idempotent}) = NReq - 1

\* What the code does give in that case: one Transaction, one response with
\* status 201, and N-1 with status 200 and the replay note, all with the same
\* transactionId.
SameRequestReplaysByStatus ==
  (SameRequestWithKey /\ \A r \in Reqs : Created(r) \/ Replayed(r)) =>
    /\ Cardinality(TxnsWithKey(req[1].key)) = 1
    /\ \A r, q \in Reqs : resp[r].data.transactionId = resp[q].data.transactionId
    /\ Cardinality({r \in Reqs : Created(r)}) = 1
    /\ \A r \in Reqs : Replayed(r) => resp[r].note

\* C4: for every asset the sum of the committed balances of its wallets never
\* changes.
C4_Conservation ==
  \A a \in AssetCodes : SumOver(WalletsOf(a), balance) = SumOver(WalletsOf(a), InitialBalance)

\* C4 witness: a top-up and a purchase are both committed on one asset.
C4_Witness ==
  \E r, q \in Reqs :
    /\ Created(r) /\ req[r].op = "TOPUP"
    /\ Created(q) /\ req[q].op = "PURCHASE"
    /\ req[r].assetCode = req[q].assetCode

\* C5: every committed Transaction has exactly two committed ledger entries,
\* a Debit on its source and a Credit on its destination, each of the
\* Transaction's amount; and no ledger entry is committed without its
\* Transaction.
C5_DoubleEntry ==
  /\ \A i \in DOMAIN transactions :
       LET t == transactions[i]
           es == EntriesOf(t.id)
       IN /\ Len(es) = 2
          /\ \E d, c \in 1..2 :
               /\ d # c
               /\ es[d].entry_type = "DEBIT" /\ es[d].wallet_id = t.source_wallet_id
               /\ es[c].entry_type = "CREDIT" /\ es[c].wallet_id = t.dest_wallet_id
               /\ es[d].amount = t.amount /\ es[c].amount = t.amount
  /\ \A j \in DOMAIN ledger :
       \E i \in DOMAIN transactions : transactions[i].id = ledger[j].transaction_id

\* C5 witness: two Transactions are committed.
C5_Witness == Len(transactions) = 2 /\ Len(ledger) = 4

\* C6: the ledger entries on a wallet, in commit order, chain from the
\* wallet's initial balance, and the last one ends at the stored balance.
C6_Continuity ==
  \A w \in WalletIds :
    LET es == EntriesOn(w) IN
      /\ \A i \in DOMAIN es :
           es[i].balance_before = IF i = 1 THEN InitialBalance[w] ELSE es[i - 1].balance_after
      /\ es # <<>> => es[Len(es)].balance_after = balance[w]

\* C6 witness: two transfers are committed on one wallet.
C6_Witness ==
  \E w \in WalletIds : Len(EntriesOn(w)) = 2 /\ balance[w] # InitialBalance[w]

RECURSIVE Net(_)
Net(es) ==
  IF es = <<>> THEN 0
  ELSE (IF Head(es).entry_type = "CREDIT" THEN Head(es).amount ELSE 0 - Head(es).amount)
       + Net(Tail(es))

\* What request r has left in the committed store.
TracesOf(r) ==
  \/ \E i \in DOMAIN transactions : transactions[i].id = txnId(r)
  \/ \E j \in DOMAIN ledger : ledger[j].transaction_id = txnId(r)
  \/ \E rec \in idempotency_store : rec.response.transactionId = txnId(r)

\* C7: a transfer that fails at any step leaves nothing committed: only a
\* request answered 201 has a Transaction, ledger entry or idempotency record
\* in the store, and the committed balances and versions are exactly those of
\* the committed transfers, so no reader sees part of a transfer.
C7_Atomicity ==
  /\ \A r \in Reqs : TracesOf(r) => Created(r)
  /\ \A w \in WalletIds :
       /\ balance[w] = InitialBalance[w] + Net(EntriesOn(w))
       /\ version[w] = 1 + Len(EntriesOn(w))
  /\ \A i \in DOMAIN transactions : Len(EntriesOf(transactions[i].id)) = 2
  /\ \A rec \in idempotency_store :
       \E i \in DOMAIN transactions :
         /\ transactions[i].id = rec.response.transactionId
         /\ transactions[i].idempotency_key = rec.key

\* C7 witness: a request failed at the Transaction insert, after both wallet
\* updates of its transaction, and left nothing.
C7_Witness ==
  \E r \in Reqs : pc[r] \in {"recover", "done"} /\ err[r] = "23505" /\ ~TracesOf(r)

\* C8: no request waits in a cycle and none is answered DeadlockDetected.
C8_NoDeadlock ==
  \A r \in Reqs : ~InCycle(r) /\ resp[r].code # "DEADLOCK_DETECTED"

\* Every request is the same operation with the same arguments on an existing
\* wallet, keys distinct or absent, all answered, no statement failed for a
\* reason of the store's own.
SameOpRace(op) ==
  /\ AllDone
  /\ NoStoreFault
  /\ \A r \in Reqs : req[r].op = op /\ Args(req[r]) = Args(req[1])
  /\ \A r, q \in Reqs : r # q => (req[r].key = NoKey \/ req[r].key # req[q].key)
  /\ findWallet(req[1].userId, req[1].assetCode) # {}

\* C9: N concurrent purchases of amount a on a user wallet of balance B:
\* min(N, B div a) succeed, the others fail with InsufficientBalance, the
\* wallet ends at B - a * successes >= 0 and Revenue gains a * successes.
C9_PurchaseRace ==
  SameOpRace("PURCHASE") =>
    LET w == CHOOSE x \in findWallet(req[1].userId, req[1].assetCode) : TRUE
        rev == CHOOSE x \in findWallet(REVENUE, req[1].assetCode) : TRUE
        a == req[1].amount
        successes == Cardinality({r \in Reqs : Created(r)})
    IN /\ successes = Min(NReq, InitialBalance[w] \div a)
       /\ \A r \in Reqs : ~Created(r) => Failed(r, "INSUFFICIENT_BALANCE")
       /\ balance[w] = InitialBalance[w] - a * successes
       /\ balance[w] >= 0
       /\ balance[rev] = InitialBalance[rev] + a * successes

\* C9 witness: such a race ended with a success and a refusal.
C9_Witness ==
  /\ SameOpRace("PURCHASE")
  /\ \E r, q \in Reqs : Created(r) /\ Failed(q, "INSUFFICIENT_BALANCE")

\* C10: N concurrent top-ups of amount a to one user: all succeed, N
\* Transactions are committed, the user gains N * a, Treasury loses N * a,
\* and none is answered DeadlockDetected.
C10_TopUpRace ==
  SameOpRace("TOPUP") =>
    LET w == CHOOSE x \in findWallet(req[1].userId, req[1].assetCode) : TRUE
        trs == CHOOSE x \in findWallet(TREASURY, req[1].assetCode) : TRUE
        a == req[1].amount
    IN /\ \A r \in Reqs : Created(r)
       /\ Len(transactions) = NReq
       /\ balance[w] = InitialBalance[w] + NReq * a
       /\ balance[trs] = InitialBalance[trs] - NReq * a
       /\ \A r \in Reqs : resp[r].code # "DEADLOCK_DETECTED"

\* C10 witness: such a race ended, on a wallet that sorts below Treasury's.
C10_Witness ==
  /\ SameOpRace("TOPUP")
  /\ \A r \in Reqs : resp[r].data.dest < resp[r].data.source

\* C11: concurrent issueBonus (or topUp) requests with the same user, asset,
\* amount and key: exactly one is answered as created; every other one gets
\* the winner's stored response, from the lookup or through duplicate-key
\* recovery; the user's balance grows by the amount once and one Transaction
\* carries the key.
C11_DuplicateKeyRace ==
  (/\ SameRequestWithKey
   /\ NoStoreFault
   /\ req[1].op \in {"BONUS", "TOPUP"}
   /\ findWallet(req[1].userId, req[1].assetCode) # {}) =>
    LET w == CHOOSE x \in findWallet(req[1].userId, req[1].assetCode) : TRUE IN
      /\ Cardinality({r \in Reqs : Created(r)}) = 1
      /\ \A r \in Reqs : ~Created(r) =>
           /\ Replayed(r)
           /\ resp[r].data.idempotent \/ err[r] = "23505"
           /\ \E q \in Reqs :
                Created(q) /\ resp[q].data = [resp[r].data EXCEPT !.idempotent = FALSE]
      /\ balance[w] = InitialBalance[w] + req[1].amount
      /\ Cardinality(TxnsWithKey(req[1].key)) = 1

\* C11 witness: such a race on issueBonus ended with the loser answered
\* through duplicate-key recovery.
C11_Witness ==
  /\ SameRequestWithKey
  /\ NoStoreFault
  /\ req[1].op = "BONUS"
  /\ \E r \in Reqs : Replayed(r) /\ err[r] = "23505"

\* A request with key k has committed and its record is stored.
KeyCommitted(k) == k # NoKey /\ \E rec \in idempotency_store : rec.key = k

\* The steps of a repeat whose lookup runs after the key has committed: the
\* lookup returns the stored payload tagged idempotent = true, and neither the
\* lookup nor the commit that follows changes the store.
ReplaySteps ==
  \A r \in Reqs :
    /\ (pc[r] = "lookup" /\ KeyCommitted(req[r].key) /\ pc'[r] # "lookup" /\ err'[r] = "") =>
         /\ pc'[r] = "commit"
         /\ \E rec \in idempotency_store :
              /\ rec.key = req[r].key
              /\ result'[r] = [rec.response EXCEPT !.idempotent = TRUE]
         /\ Store' = Store
    /\ (pc[r] = "commit" /\ result[r].idempotent /\ pc'[r] = "done" /\ err'[r] = "") =>
         /\ Store' = Store
         /\ resp'[r].status = 200
         /\ resp'[r].data = result[r]

\* What a replayed request has left: nothing of its own; the key's one
\* Transaction with its two ledger entries stays the only one.
ReplayedState ==
  /\ \A r \in Reqs :
       (Done(r) /\ resp[r].data.idempotent) =>
         /\ ~TracesOf(r)
         /\ Cardinality(TxnsWithKey(req[r].key)) = 1
         /\ \A i \in TxnsWithKey(req[r].key) :
              /\ transactions[i].id = resp[r].data.transactionId
              /\ Len(EntriesOf(transactions[i].id)) = 2
  /\ (/\ SameRequestWithKey
      /\ req[1].op = "TOPUP"
      /\ \A r \in Reqs : Created(r) \/ Replayed(r)) =>
       \A row \in getBalance(req[1].userId, req[1].assetCode) :
         row.balance = InitialBalance[row.walletId] + req[1].amount

\* C12: a repeat of a request whose key has committed commits no Transaction
\* and no ledger entry, leaves every balance unchanged and returns the stored
\* payload tagged idempotent = true; getBalance after topUp and its repeat is
\* initial + x.
C12_SequentialReplay == []ReplayedState /\ [][ReplaySteps]_vars

\* C12 witness: a repeat was answered from the lookup.
C12_Witness ==
  \E r \in Reqs :
    /\ Done(r) /\ resp[r].status = 200 /\ resp[r].data.idempotent
    /\ getBalance(req[r].userId, req[r].assetCode) # {}

\* The balance check of a transfer whose source may not go negative and
\* holds less than the amount.
InsufficientStep ==
  \A r \in Reqs :
    (/\ pc[r] = "check"
     /\ pc'[r] # "check"
     /\ ~WalletTable[sourceWalletId(r)].allow_negative
     /\ balance[sourceWalletId(r)] < req[r].amount) =>
      /\ pc'[r] = "done"
      /\ resp'[r].status = 422
      /\ resp'[r].code = "INSUFFICIENT_BALANCE"
      /\ resp'[r].error.walletId = sourceWalletId(r)
      /\ resp'[r].error.requested = req[r].amount
      /\ resp'[r].error.available = walletMap[r][sourceWalletId(r)]
      /\ parseInt(resp'[r].error.available) = Num(balance[sourceWalletId(r)])
      /\ Store' = Store

\* C13: a transfer whose source has allow_negative = false and, as read under
\* the lock, less than the amount fails with InsufficientBalance carrying the
\* source wallet, the amount and that balance; nothing is written and no
\* balance or version changes.
C13_InsufficientBalance ==
  /\ [](\A r \in Reqs : Failed(r, "INSUFFICIENT_BALANCE") => ~TracesOf(r))
  /\ [][InsufficientStep]_vars

\* C13 witness: a purchase was refused and the response names the user's
\* wallet, the amount asked and the balance found.
C13_Witness ==
  \E r \in Reqs :
    /\ Failed(r, "INSUFFICIENT_BALANCE")
    /\ resp[r].error.walletId \in UserWallets
    /\ resp[r].error.requested = req[r].amount
    /\ parseInt(resp[r].error.available).val < req[r].amount

\* A request whose Transaction insert collided on the key and whose recovery
\* query found the key's record.
Recovered(r) ==
  /\ Done(r)
  /\ err[r] = "23505"
  /\ req[r].key # NoKey
  /\ \E rec \in idempotency_store : rec.key = req[r].key

\* C14: after a collision on the idempotency key the transfer is rolled back
\* and the cache re-read; a request that finds the record is answered with the
\* cached response as a success tagged idempotent = true.
C14_DuplicateKeyRecovery ==
  \A r \in Reqs :
    Recovered(r) =>
      /\ ~TracesOf(r)
      /\ resp[r].status = 200
      /\ \E rec \in idempotency_store :
           rec.key = req[r].key /\ resp[r].data = [rec.response EXCEPT !.idempotent = TRUE]

\* What the code does give a recovered request: status 200, the replay note
\* and the stored payload as stored.
RecoveredAsStored ==
  \A r \in Reqs :
    Recovered(r) =>
      /\ ~TracesOf(r)
      /\ resp[r].status = 200
      /\ resp[r].note
      /\ \E rec \in idempotency_store : rec.key = req[r].key /\ resp[r].data = rec.response

\* The request got a null lookup and is executing the transfer in its open
\* transaction.
PassedCheck(r) ==
  pc[r] \in {"findUser", "findSys", "lock", "check", "updSrc", "updDst",
             "insTxn", "insDebit", "insCredit", "store"}

\* C15: two concurrent requests with the same idempotency key never both
\* pass the idempotency check (both get a null lookup and go on to execute
\* the transfer).
C15_CheckExcludes ==
  \A r, q \in Reqs :
    (r # q /\ req[r].key # NoKey /\ req[r].key = req[q].key) =>
      ~(PassedCheck(r) /\ PassedCheck(q))

DebitOf(t) == SelectSeq(ledger, LAMBDA e : e.transaction_id = t /\ e.entry_type = "DEBIT")
CreditOf(t) == SelectSeq(ledger, LAMBDA e : e.transaction_id = t /\ e.entry_type = "CREDIT")

\* A committed Transaction and its ledger entries.
TxnRecord(t) ==
  /\ t.status = "COMPLETED"
  /\ t.transaction_type \in {"TOPUP", "BONUS"} =>
       /\ WalletTable[t.source_wallet_id].user_id = TREASURY
       /\ t.dest_wallet_id \in UserWallets
  /\ t.transaction_type = "PURCHASE" =>
       /\ t.source_wallet_id \in UserWallets
       /\ WalletTable[t.dest_wallet_id].user_id = REVENUE
  /\ WalletTable[t.source_wallet_id].asset = t.asset
  /\ WalletTable[t.dest_wallet_id].asset = t.asset
  /\ Len(DebitOf(t.id)) = 1 /\ Len(CreditOf(t.id)) = 1
  /\ LET d == DebitOf(t.id)[1]
         c == CreditOf(t.id)[1]
     IN /\ d.wallet_id = t.source_wallet_id
        /\ d.balance_after = d.balance_before - t.amount
        /\ c.wallet_id = t.dest_wallet_id
        /\ c.balance_after = c.balance_before + t.amount

\* The Transaction of a request answered as created is the one it asked for.
TxnOfRequest(r) ==
  \E i \in DOMAIN transactions :
    LET t == transactions[i]
        userWallet == IF req[r].op = "PURCHASE" THEN t.source_wallet_id ELSE t.dest_wallet_id
    IN /\ t.id = txnId(r)
       /\ t.transaction_type = req[r].op
       /\ t.amount = req[r].amount
       /\ userWallet \in findWallet(req[r].userId, req[r].assetCode)

\* The commit of a transfer: the entries record the balances the commit
\* replaces and the balances it stores.
TransferCommitStep ==
  \A r \in Reqs :
    (pc[r] = "commit" /\ ~result[r].idempotent /\ pc'[r] = "done" /\ err'[r] = "") =>
      LET d == SelectSeq(ledger', LAMBDA e : e.transaction_id = txnId(r) /\ e.entry_type = "DEBIT")
          c == SelectSeq(ledger', LAMBDA e : e.transaction_id = txnId(r) /\ e.entry_type = "CREDIT")
      IN /\ Len(d) = 1 /\ Len(c) = 1
         /\ d[1].balance_before = balance[sourceWalletId(r)]
         /\ d[1].balance_after = balance'[sourceWalletId(r)]
         /\ c[1].balance_before = balance[destWalletId(r)]
         /\ c[1].balance_after = balance'[destWalletId(r)]

\* C16: topUp and issueBonus debit Treasury and credit the user, purchase
\* debits the user and credits Revenue, all on the asset's wallets; the
\* Transaction has the operation's kind and status COMPLETED; the Debit entry
\* goes from the source balance to it minus the amount, the Credit entry from
\* the destination balance to it plus the amount, and the stored balances are
\* those after-values.
C16_DirectionAndRecord ==
  /\ [](/\ \A i \in DOMAIN transactions : TxnRecord(transactions[i])
        /\ \A r \in Reqs : Created(r) => TxnOfRequest(r))
  /\ [][TransferCommitStep]_vars

\* C16 witness: a bonus and a purchase are both committed.
C16_Witness ==
  \E r, q \in Reqs :
    /\ Created(r) /\ req[r].op = "BONUS" /\ TxnOfRequest(r)
    /\ Created(q) /\ req[q].op = "PURCHASE" /\ TxnOfRequest(q)

\* The store as seeded: nothing committed since.
StoreUntouched ==
  /\ balance = InitialBalance
  /\ version = [w \in WalletIds |-> 1]
  /\ transactions = <<>> /\ ledger = <<>> /\ idempotency_store = {}

IsTransfer(r) == req[r].raw.op \in OpTypes

\* An empty userId or assetCode; an amount that is no strictly positive integer.
EmptyText(v) == v = Undefined \/ v = Str("")
NotPositiveInteger(v) == ~(v.t = "number" /\ v.d = 1 /\ v.n > 0)
BadTransferInput(raw) ==
  EmptyText(raw.userId) \/ EmptyText(raw.assetCode) \/ NotPositiveInteger(raw.amount)

\* The route's step on such a request answers Validation at once.
ValidationStep ==
  \A r \in HttpReqs :
    (pc[r] = "route" /\ IsTransfer(r) /\ BadTransferInput(req[r].raw) /\ pc'[r] # "route") =>
      /\ pc'[r] = "done"
      /\ resp'[r].status = 400
      /\ resp'[r].code = "VALIDATION_ERROR"
      /\ Store' = Store /\ held' = held /\ tx' = tx

\* C17: topUp, issueBonus and purchase called with an empty userId, an empty
\* assetCode or an amount that is not a strictly positive integer fail with
\* Validation; no transaction is opened, no connection taken and no stored
\* state changed.
C17_ValidationFirst ==
  /\ [](\A r \in HttpReqs :
          (IsTransfer(r) /\ BadTransferInput(req[r].raw)) =>
            /\ pc[r] \in {"received", "route", "done"}
            /\ Done(r) => resp[r].code = "VALIDATION_ERROR"
            /\ held[r] = {} /\ tx[r] = EmptyTx
            /\ StoreUntouched)
  /\ [][ValidationStep]_vars

\* C17 witness: the service refused an amount of 1.5 for a known user and
\* asset.
C17_Witness ==
  \E r \in HttpReqs :
    /\ Done(r) /\ IsTransfer(r)
    /\ err[r] = "VALIDATION_ERROR"
    /\ req[r].raw.amount = Number(3, 2)
    /\ req[r].raw.userId = Str("alice") /\ req[r].raw.assetCode = Str("GOLD")

\* A userId that is a non-empty text but no well-formed id.
MalformedUserId(v) == v.t = "string" /\ v.s # "" /\ ~IsUuid(v.s)

\* C18: a topUp, issueBonus or purchase request whose userId is non-empty but
\* not well-formed fails with Validation (not NotFound, not Internal) and
\* changes no stored state.
C18_MalformedUserId ==
  \A r \in HttpReqs :
    (/\ IsTransfer(r)
     /\ MalformedUserId(req[r].raw.userId)
     /\ Done(r)
     /\ err[r] # "57014") =>
      /\ resp[r].code = "VALIDATION_ERROR"
      /\ StoreUntouched

\* What the code does give such a request: an error answer, Validation only
\* when something else is wrong with the request, and an unchanged store.
MalformedUserIdNeverStored ==
  \A r \in HttpReqs :
    (IsTransfer(r) /\ MalformedUserId(req[r].raw.userId)) =>
      /\ StoreUntouched
      /\ Done(r) => resp[r].code \in {"VALIDATION_ERROR", "INTERNAL_ERROR"}

\* The key a request supplies: the header's, else the body's.
SuppliedKey(raw) == IF raw.headerKey # Undefined THEN raw.headerKey ELSE raw.bodyKey

\* The middleware answered the request itself.
RejectedByMiddleware(r) ==
  Done(r) /\ err[r] = "" /\ resp[r].status = 400 /\ resp[r].code = "VALIDATION_ERROR"

\* A transfer request that is otherwise in order, on an existing wallet.
GoodTransfer(raw) ==
  /\ raw.op \in OpTypes
  /\ ~BadTransferInput(raw)
  /\ raw.userId = Str("alice") /\ raw.assetCode = Str("GOLD")

KeyOfLength(k, n) == k.t = "string" /\ Len(k.s) = n

KeyAccepted(r) ==
  /\ ~RejectedByMiddleware(r)
  /\ (Done(r) /\ GoodTransfer(req[r].raw) /\ err[r] = "") =>
       /\ Created(r)
       /\ Cardinality(TxnsWithKey(req[r].key)) = 1
       /\ KeyCommitted(req[r].key)

KeyRejected(r) == RejectedByMiddleware(r) /\ StoreUntouched

\* C19: a request with a supplied key of length 255 is accepted and
\* processed; one with a key of length 256, or a key that is no string, is
\* rejected with Validation before any transfer is attempted and without any
\* stored state changing.
C19_KeyLengthBoundary ==
  \A r \in HttpReqs :
    (IsTransfer(r) /\ pc[r] # "received") =>
      LET k == SuppliedKey(req[r].raw) IN
        /\ KeyOfLength(k, MAX_KEY_LENGTH) => KeyAccepted(r)
        /\ KeyOfLength(k, MAX_KEY_LENGTH + 1) => KeyRejected(r)
        /\ k.t \notin {"string", "undefined"} => KeyRejected(r)

\* What the code does give: the same, except that a key that is no string
\* is rejected only if it is truthy; 0 (like false, null and "") counts as no
\* key and the request is processed without one.
KeyBoundaryForTruthyKeys ==
  \A r \in HttpReqs :
    (IsTransfer(r) /\ pc[r] # "received") =>
      LET k == SuppliedKey(req[r].raw) IN
        /\ KeyOfLength(k, MAX_KEY_LENGTH) => KeyAccepted(r)
        /\ KeyOfLength(k, MAX_KEY_LENGTH + 1) => KeyRejected(r)
        /\ (k.t \notin {"string", "undefined"} /\ Truthy(k)) => KeyRejected(r)
        /\ (k.t \notin {"string", "undefined"} /\ ~Truthy(k)) =>
             ~RejectedByMiddleware(r) /\ req[r].key = NoKey

KeyOfMaxLengthProcessed ==
  \E r \in HttpReqs :
    /\ KeyOfLength(SuppliedKey(req[r].raw), MAX_KEY_LENGTH)
    /\ Created(r) /\ KeyCommitted(req[r].key)

\* A history request that getTransactions has been called for.
HistoryServed(r) == req[r].op = "HISTORY" /\ Done(r)

\* C20: whatever limit and offset a history request asks for, the limit
\* getTransactions uses lies in 1..100 and is 20 when none is given, and the
\* offset it uses is at least 0 and is 0 when none is given.
C20_PagingBounds ==
  \A r \in HttpReqs :
    HistoryServed(r) =>
      /\ req[r].limit \in 1..MAX_LIMIT
      /\ ~req[r].raw.limit.present => req[r].limit = DEFAULT_LIMIT
      /\ req[r].offset >= 0
      /\ ~req[r].raw.offset.present => req[r].offset = DEFAULT_OFFSET

\* What the code does give: an upper bound on the limit, the defaults for an
\* absent, zero or non-numeric value, and a failure of the store's statement
\* when a negative value goes through.
PagingUpperBoundAndDefaults ==
  \A r \in HttpReqs :
    HistoryServed(r) =>
      LET l == QueryInt(req[r].raw.limit)
          o == QueryInt(req[r].raw.offset)
      IN /\ req[r].limit <= MAX_LIMIT
         /\ (l.nan \/ l.val = 0) => req[r].limit = DEFAULT_LIMIT
         /\ (~l.nan /\ l.val > MAX_LIMIT) => req[r].limit = MAX_LIMIT
         /\ (~l.nan /\ l.val < 0) => req[r].limit = l.val
         /\ (o.nan \/ o.val = 0) => req[r].offset = DEFAULT_OFFSET
         /\ (~o.nan /\ o.val < 0) => req[r].offset = o.val
         /\ (req[r].limit < 0 \/ req[r].offset < 0) => resp[r].status \in {400, 500}
         /\ resp[r].status = 200 =>
              /\ resp[r].pagination.limit \in 1..MAX_LIMIT
              /\ resp[r].pagination.offset >= 0

\* C26: topUp and issueBonus are never refused for lack of funds, whatever
\* the Treasury wallet holds: no such request is answered
\* InsufficientBalance, and the balance check never stops one.
C26_SystemWalletsUnlimited ==
  \A r \in Reqs :
    req[r].op \in {"TOPUP", "BONUS"} =>
      /\ resp[r].code # "INSUFFICIENT_BALANCE"
      /\ err[r] # "INSUFFICIENT_BALANCE"
      /\ pc[r] = "check" => (allow_negative(sourceWalletId(r)) /\ ~Insufficient(r))

\* C26 witness: Treasury was already below zero and a top-up and a bonus
\* took it further down.
C26_Witness ==
  \E r, q \in Reqs :
    /\ Created(r) /\ req[r].op = "TOPUP"
    /\ Created(q) /\ req[q].op = "BONUS"
    /\ resp[r].data.source = resp[q].data.source
    /\ WalletTable[resp[r].data.source].user_id = TREASURY
    /\ InitialBalance[resp[r].data.source] < 0
    /\ balance[resp[r].data.source] = InitialBalance[resp[r].data.source]
                                        - req[r].amount - req[q].amount

\* The wallet updates of executeTransfer: the balance written satisfies
\* chk_wallet_balance, so the statement is accepted.
UpdateWithinFloor ==
  \A r \in Reqs :
    /\ (pc[r] = "updSrc" /\ pc'[r] # "updSrc" /\ err'[r] # "57014") =>
         /\ chk_wallet_balance(sourceWalletId(r), sourceBalanceAfter(r))
         /\ pc'[r] = "updDst"
    /\ (pc[r] = "updDst" /\ pc'[r] # "updDst" /\ err'[r] # "57014") =>
         /\ chk_wallet_balance(destWalletId(r), destBalanceAfter(r))
         /\ pc'[r] = "insTxn"

\* C27: whenever executeTransfer updates its source or destination wallet the
\* new balance satisfies allow_negative or balance >= 0, so the store's check
\* constraint never fires and no request ends with ConstraintViolation.
C27_CheckUnreachable ==
  /\ [](\A r \in Reqs : err[r] # "23514" /\ resp[r].code # "CONSTRAINT_VIOLATION")
  /\ [][UpdateWithinFloor]_vars

\* C27 witness: a purchase of the whole balance has updated its source, a
\* wallet that may not go negative, to exactly zero.
C27_Witness ==
  \E r \in Reqs :
    /\ pc[r] = "updDst"
    /\ ~allow_negative(sourceWalletId(r))
    /\ Len(tx[r].bal) = 1
    /\ tx[r].bal[1].balance = 0

\* A transfer between its lock step and the end of its transaction.
InTransfer(r) ==
  pc[r] \in {"check", "updSrc", "updDst", "insTxn", "insDebit", "insCredit", "store"}
    \/ (pc[r] = "commit" /\ ~result[r].idempotent)

\* C28: from its lock step until its transaction ends a transfer holds the
\* locks on both of its wallets; no row is locked by two open transactions; and
\* the balances a transfer checks and computes from are the latest committed
\* ones, so its commit continues from them.
C28_MutualExclusion ==
  /\ \A r, q \in Reqs : r # q => held[r] \cap held[q] = {}
  /\ \A r \in Reqs :
       InTransfer(r) =>
         /\ WalletRow(sourceWalletId(r)) \in held[r]
         /\ WalletRow(destWalletId(r)) \in held[r]
         /\ sourceBalanceBefore(r) = balance[sourceWalletId(r)]
         /\ destBalanceBefore(r) = balance[destWalletId(r)]
  /\ \A r \in Reqs : (Done(r) \/ pc[r] \in {"idle", "recover"}) => held[r] = {}

\* C28 witness: a transfer waits for a wallet that another transfer, already
\* past its own update of that wallet, has locked.
C28_Witness ==
  \E r, q \in Reqs :
    /\ r # q
    /\ InTransfer(r) /\ tx[r].bal # <<>>
    /\ pc[q] = "lock" /\ NextRow(q) \in held[r] /\ NextRow(q)[1] = "wallets"
    /\ NextRow(q) = WalletRow(tx[r].bal[1].wallet)

\* The key's record, if it is stored and not past its expires_at.
LiveRecords(k) == {rec \in idempotency_store : rec.key = k /\ ~rec.expired}

\* The reads of the idempotency cache: the lookup of the orchestrator and the
\* re-read of duplicate-key recovery.
LookupReturns(r) == pc[r] = "lookup" /\ pc'[r] = "commit"
LookupReturnsNull(r) == pc[r] = "lookup" /\ pc'[r] = "findUser"
RecoveryReturns(r) == pc[r] = "recover" /\ pc'[r] = "done" /\ resp'[r].status = 200

ExpiredNeverRead ==
  \A r \in Reqs :
    /\ LookupReturns(r) =>
         \E rec \in LiveRecords(req[r].key) :
           result'[r] = [rec.response EXCEPT !.idempotent = TRUE]
    /\ LookupReturnsNull(r) => (req[r].key = NoKey \/ LiveRecords(req[r].key) = {})
    /\ RecoveryReturns(r) =>
         \E rec \in LiveRecords(req[r].key) : resp'[r].data = rec.response

\* C21: a record past its expires_at is never returned by a read of the
\* idempotency cache, neither by the lookup nor by the re-read of duplicate-key
\* recovery; the lookup returns the stored response exactly when the key is
\* non-null and a record of it exists that has not expired.
C21_Expiry == [][ExpiredNeverRead]_vars

\* What the code does give: the lookup returns the key's record exactly when
\* one exists that had not expired when the transaction began.
LookupHonoursExpiryAtBegin ==
  \A r \in Reqs :
    LET atBegin == {rec \in idempotency_store : rec.key = req[r].key /\ rec.key \notin tx[r].now}
    IN /\ LookupReturns(r) =>
            \E rec \in atBegin : result'[r] = [rec.response EXCEPT !.idempotent = TRUE]
       /\ LookupReturnsNull(r) => (req[r].key = NoKey \/ atBegin = {})

LookupByTransactionTime == [][LookupHonoursExpiryAtBegin]_vars

\* The rows a transfer writes (expiry is the passing of time, not a write).
Written == <<balance, version, transactions, ledger,
             {[key |-> rec.key, response |-> rec.response] : rec \in idempotency_store}>>

\* Where BEGIN, fn and COMMIT run.
InTry(r) == pc[r] \in StatementPcs \cup {"check"}

\* The steps of withTransaction.  raised says the error that leaves it on the
\* rollback path: the original failure, or whatever the rollback step left.
WithTransactionSteps(raised(_)) ==
  /\ Written' # Written =>
       \E r \in Reqs : pc[r] = "commit" /\ pc'[r] = "release" /\ err'[r] = ""
  /\ \A r \in Reqs :
       /\ (pc[r] = "commit" /\ pc'[r] = "release") =>
            /\ transactions' = transactions \o tx[r].txn
            /\ ledger' = ledger \o tx[r].ledger
            /\ err'[r] = ""
       /\ (InTry(r) /\ err'[r] # "") =>
            /\ pc'[r] = "rollback"
            /\ Written' = Written
       /\ (pc[r] = "rollback" /\ pc'[r] # "rollback") =>
            /\ pc'[r] = "release"
            /\ Written' = Written
            /\ held'[r] = {}
            /\ err'[r] = raised(r)

OriginalFailure(r) == err[r]

\* C22: withTransaction commits exactly when fn returns normally; when BEGIN,
\* fn or COMMIT fails it issues ROLLBACK and the error raised to the caller is
\* the original failure, also when the ROLLBACK statement itself fails.
C22_WithTransaction == [][WithTransactionSteps(OriginalFailure)]_vars

\* What the code does give: the same, except that when the ROLLBACK statement
\* fails the caller gets the failure of ROLLBACK in place of the original one.
RollbackOutcome(r) == err'[r]

RaisedIsOriginalOrRollbackFailure ==
  \A r \in Reqs :
    (pc[r] = "rollback" /\ pc'[r] = "release") => err'[r] \in {err[r], "08006"}

WithTransactionAsCoded ==
  [][WithTransactionSteps(RollbackOutcome) /\ RaisedIsOriginalOrRollbackFailure]_vars

\* The connections in use.
ConnectionsInUse == Total(pool.inUse, Reqs)

\* Where a request owns the client that withTransaction checked out: from
\* pool.connect() to client.release().
OwnsClient(r) == InTry(r) \/ pc[r] \in {"rollback", "release"}

\* C23: a request holds at most one connection at any time, holds it from the
\* start of its transaction until commit or rollback, and has released it
\* exactly once when it leaves withTransaction, on every exit path; the
\* connections in use never exceed the pool's limit and a finished request
\* holds none.
C23_ConnectionDiscipline ==
  /\ ConnectionsInUse <= pool.max
  /\ \A r \in Reqs :
       /\ pool.inUse[r] \in {0, 1}
       /\ pool.inUse[r] = 1 <=> OwnsClient(r)
       /\ held[r] # {} => pool.inUse[r] = 1
       /\ pool.released[r] = IF pc[r] \in {"reply", "handler", "recover", "done"}
                                 /\ err[r] # "CONNECT_TIMEOUT"
                                 /\ (req[r].op \in OpTypes)
                              THEN 1 ELSE 0
       /\ Done(r) => pool.inUse[r] = 0

\* C23 witness: with the pool exhausted by one request that failed and whose
\* ROLLBACK failed too, that request has released its connection and another
\* one, which was waiting for it, has got it.
C23_Witness ==
  \E r, q \in Reqs :
    /\ r # q
    /\ pool.max = 1
    /\ Done(r) /\ err[r] = "08006" /\ pool.released[r] = 1
    /\ pool.inUse[q] = 1 /\ pc[q] = "commit"

\* The wallets a balance read asks for, and the committed balance of a wallet
\* as the committed ledger gives it.
Matching(r) ==
  {w \in WalletIds : /\ WalletTable[w].user_id = req[r].userId
                     /\ req[r].assetCode \in {"", WalletTable[w].asset}}
CommittedBalance(w) == InitialBalance[w] + Net(EntriesOn(w))

BalanceReadDone(r) == pc[r] = "read" /\ pc'[r] = "done" /\ err'[r] # "57014"

\* The read answers with the committed balances, takes no lock and writes
\* nothing.
ReadsCommitted(r) ==
  /\ Matching(r) # {} =>
       /\ resp'[r].status = 200
       /\ resp'[r].balances =
            {[walletId |-> w, assetCode |-> WalletTable[w].asset,
              balance |-> CommittedBalance(w)] : w \in Matching(r)}
  /\ held' = held
  /\ Store' = Store

\* C25: getBalance never waits for a transfer that holds the wallet's lock,
\* returns only committed balances, and fails with NotFound exactly when no
\* wallet matches the user (and the asset, if one is given).
C25_GetBalance ==
  /\ [](\A r \in Reqs : (pc[r] = "read" /\ PoolFree) => ENABLED ReadBalance(r))
  /\ [][\A r \in Reqs :
          BalanceReadDone(r) =>
            /\ ReadsCommitted(r)
            /\ resp'[r].code = "NOT_FOUND" <=> Matching(r) = {}]_vars

\* What the code does give: the same, except that a user id that is no uuid,
\* which no wallet matches, fails in the store and is answered Internal.
GetBalanceAsCoded ==
  /\ [](\A r \in Reqs : (pc[r] = "read" /\ PoolFree) => ENABLED ReadBalance(r))
  /\ [][\A r \in Reqs :
          BalanceReadDone(r) =>
            /\ ReadsCommitted(r)
            /\ IsUuid(req[r].userId) => (resp'[r].code = "NOT_FOUND" <=> Matching(r) = {})
            /\ ~IsUuid(req[r].userId) => resp'[r].code = "INTERNAL_ERROR"]_vars

\* A balance was read while a transfer held the wallet's lock and had updated
\* the wallet, not yet committed: the read returned the committed balance.
BalanceReadDuringTransfer ==
  \E r, q \in Reqs :
    /\ Done(r) /\ req[r].op = "BALANCE" /\ resp[r].status = 200
    /\ InTransfer(q) /\ tx[q].bal # <<>>
    /\ \E row \in resp[r].balances :
         /\ WalletRow(row.walletId) \in held[q]
         /\ \E i \in DOMAIN tx[q].bal :
              /\ tx[q].bal[i].wallet = row.walletId
              /\ tx[q].bal[i].balance # row.balance
         /\ row.balance = balance[row.walletId]

\* A request has left the service: answered, its transaction ended, no lock
\* and no connection left with it.
Terminated(r) ==
  /\ Done(r)
  /\ resp[r].status # 0
  /\ held[r] = {}
  /\ pool.inUse[r] = 0
  /\ resp[r].status \in {200, 201} \/ resp[r].code # ""

\* C29: under fair scheduling every started request eventually terminates,
\* with commit and a response or with rollback and a classified error, and a
\* request blocked on a wallet lock, or on a pending insert of the same key,
\* proceeds: the holder ends, or the deadlock detector breaks the cycle.  (A
\* blocked request is a started one, and a terminated one is not blocked.)
C29_Progress == \A r \in Reqs : (pc[r] # "idle") ~> Terminated(r)

\* C29 witness: two transactions ran into a lock cycle; the one the detector
\* aborted has terminated with DEADLOCK_DETECTED and no lock or connection
\* left, and the other has committed.
C29_Witness ==
  \E r, q \in Reqs :
    /\ r # q
    /\ Terminated(r) /\ Failed(r, "DEADLOCK_DETECTED")
    /\ Terminated(q) /\ Created(q)

\* ------------------------------------------------------------------ C24
\* The codes of the application errors the services throw (AppError
\* subclasses): errorHandler answers with the error's own code.
AppErrorCodes == {"VALIDATION_ERROR", "NOT_FOUND", "INSUFFICIENT_BALANCE"}

\* What can reach errorHandler: application errors, SQLSTATEs of the store,
\* and the pool's connection timeout.
ErrorCodes ==
  AppErrorCodes \cup {"23505", "23514", "40P01", "40001", "57014", "22P02", "08006",
                      "CONNECT_TIMEOUT"}

RetryableKinds == {"DEADLOCK_DETECTED", "SERIALIZATION_FAILURE"}

\* The kind of an error other than a unique violation.
KindOf(e) ==
  CASE e \in AppErrorCodes -> e
    [] e = "23514" -> "CONSTRAINT_VIOLATION"
    [] e = "40P01" -> "DEADLOCK_DETECTED"
    [] e = "40001" -> "SERIALIZATION_FAILURE"
    [] OTHER -> "INTERNAL_ERROR"

\* The error errorHandler is answering in this step.  A balance read fails
\* and is answered in one step; a transfer's error was caught before.
ErrorAnswered(r) == IF pc[r] = "read" THEN err'[r] ELSE err[r]

\* This step sends the response to a failure of request r.
AnswersFailure(r) == pc[r] # "done" /\ pc'[r] = "done" /\ ErrorAnswered(r) # ""

\* The response marks exactly the retryable kinds.
RetryableMarked(response) == response.retryable <=> response.code \in RetryableKinds

\* The states a failed request passes through: rollback, release, handler.
FailurePcs == {"rollback", "release", "handler", "recover", "done"}

\* A failed request is not executed again: it only moves on to its answer,
\* and an answered request stays answered with the same request.
NeverReExecuted ==
  \A r \in Reqs :
    /\ err[r] # "" => pc'[r] \in FailurePcs /\ req'[r] = req[r]
    /\ Done(r) => Done(r)' /\ resp'[r] = resp[r]

\* errorHandler as a function of the error, for every code (the check
\* violation and the serialization failure do not occur in a run).
ClassifiesEveryCode ==
  \A e \in ErrorCodes \ {"23505"} :
    /\ ErrorResponse(e).code = KindOf(e)
    /\ RetryableMarked(ErrorResponse(e))

\* C24 (amended): every failure leaving an entry point gets exactly one
\* answer.  Application errors keep their code, 23514 is ConstraintViolation,
\* 40P01 DeadlockDetected, 40001 SerializationFailure; a unique violation
\* (23505) is answered with the stored response of the key as a replay or,
\* without one, as DuplicateTransaction; anything else is Internal.  Only
\* DeadlockDetected and SerializationFailure carry retryable = true, and a
\* failed request is never executed again.
C24_ErrorClassification ==
  /\ []ClassifiesEveryCode
  /\ [][/\ NeverReExecuted
        /\ \A r \in Reqs : AnswersFailure(r) =>
             /\ RetryableMarked(resp'[r])
             /\ IF ErrorAnswered(r) = "23505"
                THEN \/ resp'[r].status = 200 /\ resp'[r].note
                     \/ resp'[r].code = "DUPLICATE_TRANSACTION"
                ELSE resp'[r].code = KindOf(ErrorAnswered(r))]_vars

\* C24 witness: two requests have failed and been answered by kind: the one
\* aborted by the deadlock detector as DeadlockDetected with retryable = true,
\* the other, whose statement timed out, as Internal without the marker.
C24_Witness ==
  \E r, q \in Reqs :
    /\ Failed(r, "DEADLOCK_DETECTED") /\ err[r] = "40P01" /\ resp[r].retryable
    /\ Failed(q, "INTERNAL_ERROR") /\ err[q] = "57014" /\ ~resp[q].retryable

\* C24 as stated: the same, with every error that is no application error,
\* check violation, deadlock or serialization failure answered as Internal,
\* the unique violation included.
C24_AnythingElseInternal ==
  [][/\ NeverReExecuted
     /\ \A r \in Reqs : AnswersFailure(r) =>
          /\ RetryableMarked(resp'[r])
          /\ resp'[r].code = KindOf(ErrorAnswered(r))]_vars

\* ------------------------------------------------------------------ C30
\* The values of a sequence.
Range(s) == {s[i] : i \in DOMAIN s}

\* lockWalletsInOrder throws NotFoundError in this step.
LockFailsNotFound(r) == pc[r] = "lock" /\ err[r] = "" /\ err'[r] = "NOT_FOUND"

\* lockWalletsInOrder returns its walletMap in this step.
LockReturns(r) == pc[r] = "lock" /\ pc'[r] = "check"

\* A step locks wallet rows only above the wallet rows its transaction holds.
LocksAscending(r) ==
  \A row \in held'[r] \ held[r] :
    row[1] = "wallets" =>
      \A h \in held[r] : h[1] = "wallets" => h[2] < row[2]

\* The map returned has exactly the requested wallets as keys, each with the
\* balance of its row as the store prints it.
ReturnsRequestedWallets(r) ==
  LockReturns(r) =>
    /\ DOMAIN walletMap'[r] = Range(sortedIds(r))
    /\ \A w \in DOMAIN walletMap'[r] : walletMap'[r][w] = pgText(balance[w])

\* C30: lockWalletsInOrder locks the rows in ascending id order, fails with
\* NotFound exactly when some requested id names no existing wallet, and
\* otherwise returns the current state of every requested wallet keyed by id.
C30_LockWallets ==
  [][\A r \in Reqs :
       /\ LocksAscending(r)
       /\ ReturnsRequestedWallets(r)
       /\ (LockFailsNotFound(r) \/ LockReturns(r)) =>
            (LockFailsNotFound(r) <=> ~(Range(walletIds(r)) \subseteq WalletIds))]_vars

\* What lockWalletsInOrder does: it sorts without removing duplicates and
\* compares the number of rows with walletIds.length, so it fails with
\* NotFound exactly when an id names no wallet or an id is given twice.
LockWalletsAsCoded ==
  [][\A r \in Reqs :
       /\ LocksAscending(r)
       /\ ReturnsRequestedWallets(r)
       /\ (LockFailsNotFound(r) \/ LockReturns(r)) =>
            (LockFailsNotFound(r) <=>
               \/ ~(Range(walletIds(r)) \subseteq WalletIds)
               \/ Cardinality(Range(walletIds(r))) # Len(walletIds(r)))]_vars

\* A top-up whose user is the Treasury account itself has been refused with
\* NOT_FOUND although its one wallet exists.
SameWalletRefused ==
  \E r \in Reqs :
    /\ Failed(r, "NOT_FOUND")
    /\ found[r] = NoWallets
    /\ req[r].userId = TREASURY
    /\ req[r].op # "PURCHASE"
    /\ findWallet(req[r].userId, req[r].assetCode) # {}

\* ------------------------------------------------------------------ C31
\* The statements of one transfer in the order topUp, issueBonus, purchase
\* and executeTransfer await them.
TransferSteps ==
  <<"lookup", "findUser", "findSys", "lock", "check", "updSrc", "updDst", "insTxn",
    "insDebit", "insCredit", "store", "commit">>

StepOf(p) == CHOOSE i \in DOMAIN TransferSteps : TransferSteps[i] = p

InSteps(p) == p \in Range(TransferSteps)

\* The pending writes of request r are those of the statements before the
\* one it is at: nothing before the source update, then the source wallet,
\* the destination wallet, the Transaction, the Debit entry, the Credit entry
\* and, last, the idempotency record.  A replay from the lookup goes straight
\* to commit and has written nothing.
WritesInOrder(r) ==
  LET w == tx[r]
      at == StepOf(pc[r])
      replay == pc[r] = "commit" /\ result[r].idempotent
  IN InSteps(pc[r]) =>
       IF replay
       THEN w.bal = <<>> /\ w.txn = <<>> /\ w.ledger = <<>> /\ w.idem = <<>>
       ELSE /\ Len(w.bal) = (IF at <= StepOf("updSrc") THEN 0
                             ELSE IF at = StepOf("updDst") THEN 1 ELSE 2)
            /\ Len(w.bal) >= 1 => w.bal[1].wallet = sourceWalletId(r)
            /\ Len(w.bal) = 2 => w.bal[2].wallet = destWalletId(r)
            /\ Len(w.txn) = (IF at <= StepOf("insTxn") THEN 0 ELSE 1)
            /\ Len(w.ledger) = (IF at <= StepOf("insDebit") THEN 0
                                ELSE IF at = StepOf("insCredit") THEN 1 ELSE 2)
            /\ Len(w.ledger) >= 1 => w.ledger[1].entry_type = "DEBIT"
            /\ Len(w.ledger) = 2 => w.ledger[2].entry_type = "CREDIT"
            /\ Len(w.idem) <= 1
            /\ w.idem # <<>> => pc[r] = "commit" /\ req[r].key # NoKey

\* No wallet is written before both wallet rows are locked, and the locks
\* are taken only after both lookups.
LocksBeforeWrites(r) ==
  /\ tx[r].bal # <<>> =>
       {WalletRow(sourceWalletId(r)), WalletRow(destWalletId(r))} \subseteq held[r]
  /\ held[r] # {} => InSteps(pc[r]) /\ StepOf(pc[r]) >= StepOf("lock")
                     /\ found[r].user # None /\ found[r].sys # None
  /\ (InSteps(pc[r]) /\ StepOf(pc[r]) > StepOf("lock") /\ ~result[r].idempotent) =>
       {WalletRow(sourceWalletId(r)), WalletRow(destWalletId(r))} \subseteq held[r]

\* A step of request r inside its transaction goes to the next statement, or
\* stays at the lock statement while rows are locked one by one, or leaves
\* with an error.  The two shortcuts: a cached response returns from the
\* lookup to commit, and without a key storeIdempotencyKey returns at once.
NextStatement(r) ==
  (InSteps(pc[r]) /\ pc'[r] # pc[r]) =>
    \/ InSteps(pc'[r]) /\ StepOf(pc'[r]) = StepOf(pc[r]) + 1
    \/ pc[r] = "lookup" /\ pc'[r] = "commit" /\ result'[r].idempotent
    \/ pc[r] = "insCredit" /\ pc'[r] = "commit" /\ req[r].key = NoKey
    \/ ~InSteps(pc'[r]) /\ (err'[r] # "" \/ pc[r] = "commit")

\* The idempotency record becomes visible in the step that publishes its
\* Transaction and both ledger entries, and in no other.
RecordCommitsWithLedger ==
  LET newKeys == {rec.key : rec \in idempotency_store'} \
                 {rec.key : rec \in idempotency_store}
  IN \A k \in newKeys :
       /\ Len(transactions') = Len(transactions) + 1
       /\ transactions'[Len(transactions')].idempotency_key = k
       /\ Len(ledger') = Len(ledger) + 2
       /\ \A rec \in idempotency_store' :
            rec.key = k => rec.response.transactionId = transactions'[Len(transactions')].id

\* C31: the statements of a transfer run in the order lookup, the two wallet
\* lookups, lock, balance check, source update, destination update,
\* Transaction, Debit, Credit, idempotency record, commit; no wallet is
\* written before both locks are held, and the idempotency record is neither
\* stored before the ledger entries nor committed apart from them.
C31_StepOrder ==
  /\ [](\A r \in Reqs : WritesInOrder(r) /\ LocksBeforeWrites(r))
  /\ [][(\A r \in Reqs : NextStatement(r)) /\ RecordCommitsWithLedger]_vars

\* C31 witness: a transfer with a key is at its commit with all six writes
\* pending, in order, and its locks held.
C31_Witness ==
  \E r \in Reqs :
    /\ pc[r] = "commit" /\ ~result[r].idempotent /\ req[r].key # NoKey
    /\ Len(tx[r].bal) = 2 /\ Len(tx[r].txn) = 1 /\ Len(tx[r].ledger) = 2
    /\ Len(tx[r].idem) = 1
    /\ WalletRow(sourceWalletId(r)) \in held[r]

\* ------------------------------------------------------------------ C32
\* Request r's COMMIT of a transfer (not of a replay) succeeds in this step.
CommitsTransfer(r) ==
  pc[r] = "commit" /\ ~result[r].idempotent /\ pc'[r] # "commit" /\ err'[r] = ""

\* s extended at its end by n rows, the rows of s unchanged.
ExtendedBy(s, t, n) == Len(t) = Len(s) + n /\ SubSeq(t, 1, Len(s)) = s

\* What the commit of request r's transfer changes, and what it leaves.
TransferFrame(r) ==
  LET src == sourceWalletId(r)
      dst == destWalletId(r)
  IN /\ src # dst
     /\ balance'[src] = balance[src] - req[r].amount
     /\ balance'[dst] = balance[dst] + req[r].amount
     /\ version'[src] = version[src] + 1
     /\ version'[dst] = version[dst] + 1
     /\ \A w \in WalletIds \ {src, dst} :
          balance'[w] = balance[w] /\ version'[w] = version[w]
     /\ ExtendedBy(transactions, transactions', 1)
     /\ ExtendedBy(ledger, ledger', 2)
     /\ idempotency_store \subseteq idempotency_store'
     /\ Cardinality(idempotency_store' \ idempotency_store) <= 1
     /\ req[r].key = NoKey => idempotency_store' = idempotency_store

\* C32: the commit of a transfer changes the balances of its source and
\* destination wallets only, raises the version of exactly those two by 1,
\* appends one Transaction, two ledger entries and at most one idempotency
\* record, and leaves every other wallet and every earlier row as it was; no
\* other step changes the store, and versions never decrease.
C32_Frame ==
  [][/\ \A r \in Reqs : CommitsTransfer(r) => TransferFrame(r)
     /\ (\A r \in Reqs : ~CommitsTransfer(r)) => UNCHANGED Store
     /\ \A w \in WalletIds : version'[w] >= version[w]]_vars

\* C32 witness: one transfer with a key is committed: its two wallets are at
\* version 2, every other wallet is as seeded, and one Transaction, two
\* entries and one record are stored.
C32_Witness ==
  \E r \in Reqs :
    /\ Created(r) /\ req[r].key # NoKey
    /\ version[resp[r].data.source] = 2 /\ version[resp[r].data.dest] = 2
    /\ \A w \in WalletIds \ {resp[r].data.source, resp[r].data.dest} :
         version[w] = 1 /\ balance[w] = InitialBalance[w]
    /\ Len(transactions) = 1 /\ Len(ledger) = 2 /\ Cardinality(idempotency_store) = 1

\* ------------------------------------------------------------------ C33
\* The committed records of key k.
RecordsOf(k) == {rec \in idempotency_store : rec.key = k}

\* Every idempotency record stands for exactly one committed Transaction: the
\* one with its key, whose id is the transactionId of the cached response.
RecordHasTransaction ==
  \A rec \in idempotency_store :
    /\ Cardinality(TxnsWithKey(rec.key)) = 1
    /\ \A i \in TxnsWithKey(rec.key) : transactions[i].id = rec.response.transactionId
    /\ Cardinality(RecordsOf(rec.key)) = 1

\* Every committed Transaction with a key has its record.
TransactionHasRecord ==
  \A i \in DOMAIN transactions :
    transactions[i].idempotency_key # NoKey =>
      RecordsOf(transactions[i].idempotency_key) # {}

\* A Transaction with a key and its record become visible in one step.
CommittedTogether ==
  \A i \in DOMAIN transactions' \ DOMAIN transactions :
    LET t == transactions'[i] IN
      t.idempotency_key # NoKey =>
        \E rec \in idempotency_store' \ idempotency_store :
          rec.key = t.idempotency_key /\ rec.response.transactionId = t.id

\* C33: at every commit boundary each idempotency record with key k belongs
\* to exactly one committed Transaction with key k whose id is the record's
\* transactionId, and each Transaction committed with a key has such a
\* record, committed in the same step.
C33_CacheAndLedgerAgree ==
  /\ [](RecordHasTransaction /\ TransactionHasRecord)
  /\ [][CommittedTogether]_vars

\* C33 witness: two transfers with different keys are committed, each with
\* its record, one of the records already expired.
C33_Witness ==
  /\ Len(transactions) = 2
  /\ Cardinality(idempotency_store) = 2
  /\ \E rec \in idempotency_store : rec.expired
  /\ \A i \in DOMAIN transactions : transactions[i].idempotency_key # NoKey


\* ------------------------------------------------------------------ C34
\* Request r has been answered with an error.
Refused(r) == Done(r) /\ resp[r].status >= 400

\* No request other than those in S has anything committed under key k.
OnlyCommittedBy(S, k) ==
  \A q \in Reqs \ S : (pc[q] # "idle" /\ req[q].key = k) => ~TracesOf(q)

\* A refused request has left nothing, and its key is as free as before.
FailureNotCached ==
  \A r \in Reqs :
    (Refused(r) /\ req[r].key # NoKey) =>
      /\ ~TracesOf(r)
      /\ OnlyCommittedBy({}, req[r].key) =>
           TxnsWithKey(req[r].key) = {} /\ RecordsOf(req[r].key) = {}

\* The lookup of a request that comes after a refused request with its key
\* finds nothing, and the transfer is run.
LookupAfterFailure ==
  \A r, q \in Reqs :
    (/\ r # q /\ Refused(q) /\ req[q].key # NoKey /\ req[r].key = req[q].key
     /\ OnlyCommittedBy({}, req[r].key)
     /\ pc[r] = "lookup" /\ pc'[r] # "lookup" /\ err'[r] = "") =>
      pc'[r] = "findUser" /\ result'[r] = result[r]

\* If it is answered with success, it is answered as created and its own
\* Transaction and record are committed.
CreatedAfterFailure ==
  \A r, q \in Reqs :
    (/\ r # q /\ Refused(q) /\ req[q].key # NoKey /\ req[r].key = req[q].key
     /\ OnlyCommittedBy({r}, req[r].key)
     /\ Done(r) /\ resp[r].status < 400) =>
      /\ Created(r) /\ ~resp[r].note /\ ~resp[r].data.idempotent
      /\ TxnOfRequest(r)
      /\ \A i \in TxnsWithKey(req[r].key) : transactions[i].id = txnId(r)
      /\ \E rec \in RecordsOf(req[r].key) : rec.response.transactionId = txnId(r)

\* C34: a request with key k that fails leaves neither an idempotency record
\* nor a Transaction for k; a later request with k is executed afresh and, if
\* it succeeds, commits a Transaction and is reported as created.
C34_FailuresNeverCached ==
  /\ [](FailureNotCached /\ CreatedAfterFailure)
  /\ [][LookupAfterFailure]_vars

\* C34 witness: a purchase with key k was refused for lack of funds, and a
\* request with the same key was then answered as created.
C34_Witness ==
  \E r, q \in Reqs :
    /\ q < r /\ req[q].key # NoKey /\ req[r].key = req[q].key
    /\ Failed(q, "INSUFFICIENT_BALANCE")
    /\ Created(r) /\ TxnOfRequest(r)
    /\ Cardinality(TxnsWithKey(req[r].key)) = 1


\* ------------------------------------------------------------------ C35
\* Request r carries the key under which request q, with other arguments, has
\* committed its transfer.
ReusesKeyOf(r, q) ==
  /\ r # q /\ req[q].key # NoKey /\ req[r].key = req[q].key
  /\ Args(req[r]) # Args(req[q])
  /\ Created(q)

KeyAloneAsCoded ==
  /\ [](\A r, q \in Reqs :
         (ReusesKeyOf(r, q) /\ Done(r) /\ NoStoreFault) =>
           /\ ~TracesOf(r)
           /\ \/ /\ Replayed(r)
                 /\ resp[r].data = [resp[q].data EXCEPT !.idempotent = resp[r].data.idempotent]
                 /\ resp[r].data.idempotent \/ err[r] = "23505"
              \/ resp[r].code \in {"NOT_FOUND", "INSUFFICIENT_BALANCE", "DEADLOCK_DETECTED"})
  /\ [][\A r \in Reqs :
          (/\ pc[r] = "lookup" /\ pc'[r] # "lookup" /\ err'[r] = ""
           /\ KeyCommitted(req[r].key)) =>
            /\ pc'[r] = "commit"
            /\ \E rec \in RecordsOf(req[r].key) :
                 result'[r] = [rec.response EXCEPT !.idempotent = TRUE]
            /\ UNCHANGED Store]_vars

\* A purchase that raced a top-up with the same key and was refused for lack
\* of funds after the top-up had committed under the key.
KeyReuseRefused ==
  \E r, q \in Reqs :
    /\ ReusesKeyOf(r, q) /\ NoStoreFault
    /\ req[q].op = "TOPUP" /\ req[r].op = "PURCHASE"
    /\ Failed(r, "INSUFFICIENT_BALANCE")


\* ------------------------------------------------------------------ C36
\* Request r carries a key whose Transaction and record were committed, and
\* whose record had expired, before r's transaction began.
LateReuse(r) == req[r].key # NoKey /\ req[r].key \in tx[r].now

\* A late reuse passes the lookup.
LatePassesLookup(r) ==
  (pc[r] = "lookup" /\ pc'[r] # "lookup" /\ err'[r] = "") => pc'[r] = "findUser"

\* C36: once a Transaction with key k is committed no later request with k
\* commits another one, also after k's record has expired: such a request
\* passes the lookup, runs the transfer up to the Transaction insert, is
\* rolled back there, and is answered with the stored response as a replay
\* when the record is still stored, with DuplicateTransaction when it is not.
C36_KeyReuseAfterExpiry ==
  /\ [](/\ \A k \in Keys : Cardinality(TxnsWithKey(k)) <= 1
        /\ \A r \in Reqs : LateReuse(r) => ~TracesOf(r)
        /\ \A r \in Reqs :
             (Done(r) /\ err[r] = "23505" /\ req[r].key # NoKey) =>
               IF RecordsOf(req[r].key) # {} THEN Replayed(r)
               ELSE Failed(r, "DUPLICATE_TRANSACTION"))
  /\ [][\A r \in Reqs :
          LateReuse(r) =>
            /\ LatePassesLookup(r)
            /\ (err[r] = "" /\ err'[r] \notin {"", "57014"}) =>
                 pc[r] = "insTxn" /\ err'[r] = "23505"
            /\ pc[r] = "commit" => err'[r] # ""]_vars

\* What the code gives: the late request runs its transfer as if the key were
\* new, so it may be refused before the Transaction insert (no wallet, not
\* enough funds); if it reaches the insert it is rolled back there.  It never
\* commits.
KeyReuseAsCoded ==
  /\ [](/\ \A k \in Keys : Cardinality(TxnsWithKey(k)) <= 1
        /\ \A r \in Reqs : LateReuse(r) => ~TracesOf(r)
        /\ \A r \in Reqs :
             (Done(r) /\ err[r] = "23505" /\ req[r].key # NoKey) =>
               IF RecordsOf(req[r].key) # {} THEN Replayed(r)
               ELSE Failed(r, "DUPLICATE_TRANSACTION"))
  /\ [][\A r \in Reqs :
          LateReuse(r) =>
            /\ LatePassesLookup(r)
            /\ (err[r] = "" /\ err'[r] \notin {"", "57014"}) =>
                 \/ pc[r] = "insTxn" /\ err'[r] = "23505"
                 \/ pc[r] \in {"findUser", "findSys", "lock"} /\ err'[r] = "NOT_FOUND"
                 \/ pc[r] = "check" /\ err'[r] = "INSUFFICIENT_BALANCE"
            /\ pc[r] = "commit" => err'[r] # ""]_vars

\* The repeat of a committed purchase, with the same arguments and key, after
\* the key's record has expired, refused for lack of funds.
LateRepeatRefused ==
  \E r, q \in Reqs :
    /\ q # r /\ Created(q) /\ req[q].op = "PURCHASE" /\ req[r] = req[q]
    /\ LateReuse(r)
    /\ pc[r] = "rollback" /\ err[r] = "INSUFFICIENT_BALANCE"


\* ------------------------------------------------------------------ C37
\* The Transaction insert of r collides on the key.
Collides(r) == err[r] = "" /\ err'[r] = "23505" /\ req[r].key # NoKey

\* The recovery query of r returns.
RecoveryReads(r) == pc[r] = "recover" /\ pc'[r] = "done" /\ err'[r] = "23505"

\* C37: when requests with one key race and the winner commits, the loser is
\* not answered DuplicateTransaction unless its recovery query fails: the
\* collision is raised only once the winner's Transaction and record are
\* committed, so the recovery query finds the record.
C37_LoserRecovers ==
  /\ [](\A r \in Reqs :
         (Failed(r, "DUPLICATE_TRANSACTION") /\ req[r].key # NoKey) => err[r] = "57014")
  /\ [][\A r \in Reqs :
          /\ Collides(r) =>
               /\ pc[r] = "insTxn"
               /\ TxnsWithKey(req[r].key) # {} /\ RecordsOf(req[r].key) # {}
          /\ RecoveryReads(r) =>
               /\ resp'[r].status = 200 /\ resp'[r].note
               /\ \E rec \in RecordsOf(req[r].key) : resp'[r].data = rec.response]_vars

\* C37 witness: no record has expired, so the request that collided had run
\* its lookup before the winner committed; it was answered with the winner's
\* response through recovery.
C37_Witness ==
  \E r, q \in Reqs :
    /\ r # q /\ req[r].key # NoKey /\ req[r].key = req[q].key
    /\ Created(q)
    /\ Replayed(r) /\ err[r] = "23505" /\ resp[r].data = resp[q].data
    /\ \A rec \in idempotency_store : ~rec.expired


\* ------------------------------------------------------------------ C38
\* The COMMIT of r's transfer rejects.
CommitFails(r) ==
  pc[r] = "commit" /\ ~result[r].idempotent /\ err[r] = "" /\ err'[r] # ""

\* The response of r is sent as created in this step.
RepliesCreated(r) == resp[r].status # 201 /\ resp'[r].status = 201

\* The rows of r's transfer are committed: its Transaction, both ledger
\* entries, and its record if it carries a key.
Durable(r) ==
  /\ TxnOfRequest(r)
  /\ Len(EntriesOf(txnId(r))) = 2
  /\ req[r].key # NoKey => \E rec \in RecordsOf(req[r].key) : rec.response.transactionId = txnId(r)

\* C38: a caller is answered with success as created only after the COMMIT of
\* its transaction has succeeded; when COMMIT fails the caller is answered
\* with an error and nothing of the transfer is ever visible.
C38_SuccessImpliesDurability ==
  /\ [](\A r \in Reqs :
         /\ resp[r].status = 201 => err[r] = "" /\ Durable(r)
         /\ err[r] \notin {"", "23505"} => ~TracesOf(r) /\ (Done(r) => resp[r].status >= 400))
  /\ [][\A r \in Reqs :
          /\ RepliesCreated(r) => Durable(r) /\ UNCHANGED Store
          /\ CommitFails(r) => UNCHANGED Store /\ err'[r] # "23505"]_vars

\* C38 witness: one caller has been answered as created; the COMMIT of another
\* transfer, which had run every statement up to its idempotency record, has
\* just failed, and nothing of it is in the store.
C38_Witness ==
  \E r, q \in Reqs :
    /\ Created(q) /\ Durable(q)
    /\ pc[r] = "rollback" /\ err[r] = "57014"
    /\ Len(tx[r].txn) = 1 /\ Len(tx[r].ledger) = 2 /\ Len(tx[r].idem) = 1
    /\ ~TracesOf(r)


\* ------------------------------------------------------------------ C39
\* A well-formed transfer whose user is the system account on the other side
\* of the operation, answered by the service.
OwnAccountTransfer(r) ==
  /\ Done(r) /\ IsTransfer(r)
  /\ ~BadTransferInput(req[r].raw) /\ ~RejectedByMiddleware(r)
  /\ req[r].userId = SystemAccountOf(req[r].op)
  /\ err[r] # "57014"

\* C39: no committed Transaction has the same wallet as source and as
\* destination; a topUp or issueBonus for the Treasury account and a purchase
\* for the Revenue account fail with NotFound and change nothing stored.
C39_NoSelfTransfer ==
  /\ \A i \in DOMAIN transactions :
       transactions[i].source_wallet_id # transactions[i].dest_wallet_id
  /\ \A j \in DOMAIN ledger :
       \A i \in DOMAIN ledger :
         (i # j /\ ledger[i].transaction_id = ledger[j].transaction_id) =>
           ledger[i].wallet_id # ledger[j].wallet_id
  /\ \A r \in Reqs :
       OwnAccountTransfer(r) => Failed(r, "NOT_FOUND") /\ resp[r].status = 404 /\ StoreUntouched

\* C39 witness: a purchase for the Revenue account, whose wallet of the asset
\* exists, was refused with NOT_FOUND and the store is as seeded.
C39_Witness ==
  \E r \in Reqs :
    /\ OwnAccountTransfer(r)
    /\ req[r].op = "PURCHASE" /\ req[r].userId = REVENUE
    /\ findWallet(req[r].userId, req[r].assetCode) # {}
    /\ Failed(r, "NOT_FOUND") /\ StoreUntouched


\* ------------------------------------------------------------------ C40
\* Every client has sent the same request without a key, every one has been
\* answered, the source can pay all of them, and the store has not failed.
SameRequestNoKey ==
  /\ AllDone
  /\ \A r \in Reqs : Args(req[r]) = Args(req[1]) /\ req[r].key = NoKey
  /\ NoStoreFault
  /\ \E w \in findWallet(req[1].userId, req[1].assetCode) :
       req[1].op = "PURCHASE" => InitialBalance[w] >= NReq * req[1].amount

\* C40: requests without a key are never deduplicated: N identical requests
\* without a key, with sufficient funds, commit N distinct Transactions; a
\* request without a key never collides on the key's uniqueness, is never
\* answered as a replay and stores no idempotency record.
C40_NoKeyNoDedup ==
  /\ SameRequestNoKey =>
       /\ \A r \in Reqs : Created(r) /\ TxnOfRequest(r)
       /\ Len(transactions) = NReq
       /\ \A i, j \in DOMAIN transactions : i # j => transactions[i].id # transactions[j].id
       /\ \A i \in DOMAIN transactions : transactions[i].idempotency_key = NoKey
       /\ \A r, q \in Reqs : r # q => resp[r].data.transactionId # resp[q].data.transactionId
  /\ \A r \in Reqs :
       (pc[r] # "idle" /\ req[r].key = NoKey) =>
         /\ err[r] # "23505"
         /\ ~Replayed(r) /\ ~result[r].idempotent /\ ~resp[r].note
         /\ tx[r].idem = <<>>
         /\ pc[r] # "store"
  /\ \A rec \in idempotency_store : rec.key # NoKey

\* C40 witness: every client sent the same request without a key and each was
\* answered as created with a Transaction of its own.
C40_Witness ==
  /\ SameRequestNoKey
  /\ Len(transactions) = NReq
  /\ idempotency_store = {}
  /\ \A r \in Reqs : Created(r) /\ resp[r].data.transactionId = txnId(r)

====
